---- MODULE Spec2Model ----
(***************************************************************************)
(* noisia: workload drivers that produce harmful load against PostgreSQL.  *)
(*                                                                         *)
(* One behaviour of the model is one call of Run of one driver (or one     *)
(* call of executeDeadlock, of targeting.TopWriteTables, of runApplication,*)
(* of noisia.Cleanup, of the rollbacks startLoop, of NewWorkload and the   *)
(* draw of one naptime, of the terminate buildQuery, of the idlexacts      *)
(* startSingleIdleXact, of the tempfiles execQuery by the goroutines of    *)
(* one worker, of the draws of row identifiers by the deadlock attempts,   *)
(* of main, or of the rollbacks validation and throttle), chosen in Init   *)
(* by the variable driver.                                                 *)
(* Database calls are steps whose outcome (success or error) is chosen     *)
(* nondeterministically; timers fire at any time.                          *)
(***************************************************************************)
EXTENDS Integers, Sequences, FiniteSets

\* ------------------------------------------------------------------ bounds
MaxJobs == 2
MaxUnits == 4
MaxConns == 3
MaxIters == 2
MaxId == 2
MaxStat == 2
MaxLimit == 3
MaxCalls == 2
MaxApps == 3
MaxDur == 3
MaxSess == 2
MaxQueries == 2
MaxNow == 5
MaxRate == 2
MaxSeeds == 1
TimerTicks == 2

\* ------------------------------------------------------- program constants
\* maxAffectedTables of idlexacts.Run and waitxacts.Run
maxAffectedTables == 3

\* doExit := make(chan error, 2) of main
doExitCap == 2

\* const total = 15 of rollbacks newErrQuery
total == 15

PoolDrivers == {"deadlocks", "idlexacts", "waitxacts"}
WorkerDrivers == {"forkconns", "rollbacks", "tempfiles"}
Workloads == PoolDrivers \cup WorkerDrivers \cup {"failconns", "terminate"}
Drivers ==
    Workloads \cup {"executeDeadlock", "TopWriteTables", "runApplication", "Cleanup",
                     "startLoop", "NewWorkload", "buildQuery", "startSingleIdleXact",
                     "execQuery", "rand", "main", "throttle"}

\* Drivers whose Run prepares a fixture table and registers its cleanup
FixtureDrivers == {"deadlocks", "waitxacts"}

\* tables = []string{"_noisia_waitxacts_workload"}
FixtureTable == "_noisia_waitxacts_workload"

\* Rows of pg_stat_user_tables: schema-qualified names of the user tables
UserTables == {"public.t1", "public.t2"}

\* var tables = []string{...} of noisia.Cleanup
CleanupTables ==
    <<"_noisia_deadlocks_workload", "_noisia_waitxacts_workload",
      "_noisia_tempfiles_workload">>

\* The workloads runApplication starts, in the order of its if statements
AppWorkloads ==
    <<"idlexacts", "rollbacks", "waitxacts", "deadlocks", "tempfiles", "terminate",
      "failconns", "forkconns">>

\* Config.validate: Jobs >= 1, and Jobs >= 2 for waitxacts
MinJobs(d) == IF d = "waitxacts" THEN 2 ELSE 1

\* Drivers whose Config has a range of durations (NaptimeMin/NaptimeMax,
\* LocktimeMin/LocktimeMax)
RangeDrivers == {"idlexacts", "waitxacts"}

\* ------------------------------------------- int64 (time.Duration) values
\* A time.Duration is an int64 count of nanoseconds.  It is kept as four
\* 16-bit limbs, most significant first, in two's complement.
Limb == 2^16

\* x * 2 on int64: wraps around (Go integer overflow is silent)
Mul2(x) ==
    LET d4 == 2 * x[4]
        d3 == 2 * x[3] + (d4 \div Limb)
        d2 == 2 * x[2] + (d3 \div Limb)
        d1 == 2 * x[1] + (d2 \div Limb)
    IN  <<d1 % Limb, d2 % Limb, d3 % Limb, d4 % Limb>>

\* x / 2 on int64, for x >= 0
Div2(x) ==
    <<x[1] \div 2,
      (x[2] \div 2) + (x[1] % 2) * (Limb \div 2),
      (x[3] \div 2) + (x[2] % 2) * (Limb \div 2),
      (x[4] \div 2) + (x[3] % 2) * (Limb \div 2)>>

IsNeg(x) == x[1] >= Limb \div 2

RECURSIVE LexGt(_, _, _)
LexGt(x, y, i) ==
    IF i > 4 THEN FALSE
    ELSE IF x[i] # y[i] THEN x[i] > y[i]
    ELSE LexGt(x, y, i + 1)

\* x > y on int64
Gt(x, y) ==
    IF IsNeg(x) # IsNeg(y) THEN IsNeg(y) ELSE LexGt(x, y, 1)

Ge(x, y) == x = y \/ Gt(x, y)

\* x + y on int64: wraps around
Add(x, y) ==
    LET s4 == x[4] + y[4]
        s3 == x[3] + y[3] + (s4 \div Limb)
        s2 == x[2] + y[2] + (s3 \div Limb)
        s1 == x[1] + y[1] + (s2 \div Limb)
    IN  <<s1 % Limb, s2 % Limb, s3 % Limb, s4 % Limb>>

Zero == <<0, 0, 0, 0>>
One == <<0, 0, 0, 1>>
Two == <<0, 0, 0, 2>>
MinusOne == <<Limb - 1, Limb - 1, Limb - 1, Limb - 1>>
MaxInt64 == <<(Limb \div 2) - 1, Limb - 1, Limb - 1, Limb - 1>>

\* x - y on int64: wraps around
Sub(x, y) ==
    Add(Add(x, [i \in 1..4 |-> Limb - 1 - y[i]]), One)

\* Values of a time.Duration field of a Config
Durations == {MinusOne, Zero, One, Two, MaxInt64}

\* defaultConnInterval := 50 * time.Millisecond = 50000000 ns = 0x02FAF080
defaultConnInterval == <<0, 0, 762, 61568>>

\* ---------------------------------------------------------------- state
VARIABLES
    driver,       \* which Run (or executeDeadlock) this behaviour executes
    jobs,         \* Config.Jobs
    cfgFixture,   \* waitxacts Config.Fixture
    ctxDone,      \* the context passed to Run is cancelled / past its deadline
    runPc,        \* position of Run
    ret,          \* value returned by Run: "none" until it returns
    \* guard-channel pool (deadlocks, idlexacts, waitxacts)
    guard,        \* len(guard): number of tokens in the channel
    units,        \* worker goroutines started by the admission loop
    warned,       \* units whose error was logged with Warnf
    tables,       \* the tables list of Run
    fixture,      \* the driver's fixture table in the database
    rows,         \* rows of the fixture table inserted by prepare
    prepared,     \* outcome of w.prepare: "none" until it is called
    cleanupSet,   \* the deferred cleanup has been registered
    cleaned,      \* the call of w.cleanup: what it found and returned
    \* failconns
    interval,     \* interval between connection attempts
    prevInterval, \* interval before the last attempt
    lastAttempt,  \* outcome of the last attempt: "none", "ok", "fail"
    conns,        \* the conns slice
    opened,       \* connections db.Connect has returned
    closed,       \* closed[c]: how many times Close was called on c
    \* WaitGroup drivers (forkconns, rollbacks, tempfiles)
    workers,      \* worker goroutines started by Run
    \* executeDeadlock
    ids,          \* <<id1, id2>> drawn by rand.Int()
    edConns,      \* connections executeDeadlock has opened and not closed
    tx,           \* the two runUpdateXact goroutines
    lock,         \* lock[r]: transaction holding the row lock of id r, 0 if none
    \* targeting.TopWriteTables
    stats,        \* stats[t]: n_tup_upd + n_tup_del of user table t, -1 if none
    limit,        \* the argument n
    answered,     \* outcome of db.Query: "none" until it is called
    got,          \* the result: list, whether it is a nil slice, error
    \* noisia.Cleanup
    dbTables,     \* fixture tables existing in the database
    dropped,      \* number of tables the loop has gone through
    rets,         \* values returned by the calls of Cleanup made so far
    unreached,    \* a call of Cleanup did not get through to the server
    \* runApplication
    enabled,      \* workloads requested in the config
    child,        \* child[w]: goroutine of workload w
    appFile,      \* the file runApplication is taken from
    logged,       \* workloads whose error message has been emitted
    \* time, counted in periods of the rate limiter or ticks of the timer
    now,          \* time elapsed since the call
    \* the timer loop of terminate Run
    fireAt,       \* time at which the timer fires
    started,      \* time at which the current iteration started
    reached,      \* time at which the current iteration reached its select
    \* rollbacks startLoop(ctx, conn, r)
    dur,          \* deadline of ctx in limiter periods: r * d
    tokens,       \* tokens in the bucket of the limiter (burst 1)
    lost,         \* periods that added no token: bucket full or no limiter yet
    granted,      \* calls of limiter.Allow() that returned true
    commits,      \* the counter commits
    rollbacks,    \* the counter rollbacks
    \* NewWorkload(config, logger) and the draw of startLoop
    kind,         \* the package whose NewWorkload is called
    cfgMin,       \* Config.NaptimeMin / LocktimeMin
    cfgMax,       \* Config.NaptimeMax / LocktimeMax
    naptime,      \* the duration drawn for one unit
    \* terminate buildQuery(c)
    termCfg,      \* the Config c
    query,        \* the statement returned, as its sequence of words
    \* startSingleIdleXact(ctx, pool, table, naptime)
    sx,           \* its arguments and the transaction it begins
    \* tempfiles execQuery(ctx, pool), called by the goroutines of startLoop
    sess,         \* sess[c]: connection c of the pool and its session
    spill,        \* spill[q]: the call of execQuery made by goroutine q
    \* accesses to the variable err of deadlocks Run
    warnArg,      \* the variable the worker goroutine passes to Warnf
    errReads,     \* reads of Run's err made by the worker goroutines
    \* the row identifiers drawn by the attempts of executeDeadlock
    rng,          \* the generator of math/rand: its seed, the values drawn since
    draws,        \* draws[a]: position and identifiers of attempt a
    \* main
    sigG,         \* position of the goroutine that listens for signals
    appG,         \* position of the goroutine that runs the application
    doExit,       \* the values in the channel doExit
    rc,           \* the value main received from doExit
    \* the pool of connections of Run
    poolOpen,     \* the pool db.NewPostgresDB returned to Run holds connections
    \* rollbacks NewWorkload and the throttled startLoop of one worker
    rb            \* the Config, the rate drawn and the interval computed from it

ctxVars == <<driver, jobs, cfgFixture, ctxDone>>
runVars == <<runPc, ret>>
poolVars == <<guard, units, warned, tables, fixture, rows, prepared, cleanupSet, cleaned>>
fcVars == <<interval, prevInterval, lastAttempt, conns, opened, closed>>
wkVars == <<workers>>
edVars == <<ids, edConns, tx, lock>>
twVars == <<stats, limit, answered, got>>
clVars == <<dbTables, dropped, rets, unreached>>
appVars == <<enabled, child, appFile, logged>>
auxVars == <<twVars, clVars, appVars>>
tmVars == <<now>>
termVars == <<fireAt, started, reached>>
slVars == <<dur, tokens, lost, granted, commits, rollbacks>>
nwVars == <<kind, cfgMin, cfgMax, naptime>>
bqVars == <<termCfg, query>>
eqVars == <<sess, spill>>
rcVars == <<warnArg, errReads>>
rdVars == <<rng, draws>>
mnVars == <<sigG, appG, doExit, rc>>
hnVars == <<sx, eqVars, rcVars, rdVars, mnVars, poolOpen, rb>>
extVars == <<tmVars, termVars, slVars, nwVars, bqVars>>
vars == <<ctxVars, runVars, poolVars, fcVars, wkVars, edVars, auxVars, extVars, hnVars>>

Errs == {"nil", "err"}

Range(s) == {s[k] : k \in 1..Len(s)}

NoUnit == [st |-> "none", err |-> "none", table |-> "none", lk |-> "none"]
NoCleanup == [found |-> "none", res |-> "none"]
NoResult == [tables |-> <<>>, isNil |-> TRUE, err |-> "none"]
NoWorker == [pc |-> "none", err |-> "none", iters |-> 0, queries |-> 0]
NoTx == [pc |-> "none", res |-> "none", wait |-> 0]

\* Values of a filter of the terminate Config, as sequences of words:
\* empty, a plain pattern, a pattern that holds single quotes
FilterValues ==
    {<<>>, <<"example">>, <<"x", "'", "AND", "datname", "~", "'", "y">>}

TermConfigs ==
    [SoftMode : BOOLEAN, IgnoreSystemBackends : BOOLEAN, ClientAddr : FilterValues,
     User : FilterValues, Database : FilterValues, ApplicationName : FilterValues]

\* startSingleIdleXact before it is called: no transaction
NoSx == [table |-> "", naptime |-> 0, xact |-> "none", begun |-> 0, timer |-> 0]

\* A connection the pool has not opened; a goroutine not started
NoSess == [open |-> FALSE, lowered |-> FALSE, by |-> 0]
NoSpill == [pc |-> "none", conn |-> 0, setOn |-> 0, selOn |-> 0, low |-> FALSE, err |-> "none"]

\* An attempt of executeDeadlock that has not reached rand.Seed
NoDraw == [pc |-> "seed", id1 |-> -1, id2 |-> -1]

\* The working time of one second the interval is computed from, in ns
WorkingTime == 900000000

\* The values of Config.Jobs, Config.MinRate and Config.MaxRate
RateConfigs == [Jobs : 0..1, MinRate : -1..MaxRate, MaxRate : -1..MaxRate]

\* A worker whose loop has not drawn a rate
NoRb == [Jobs |-> 0, MinRate |-> 0, MaxRate |-> 0, iters |-> 0, rate |-> 0, interval |-> 0]

NoTermConfig ==
    [SoftMode |-> FALSE, IgnoreSystemBackends |-> FALSE, ClientAddr |-> <<>>,
     User |-> <<>>, Database |-> <<>>, ApplicationName |-> <<>>]

Init ==
    /\ driver \in Drivers
    /\ jobs \in IF driver = "NewWorkload" THEN 0..MaxJobs
               ELSE IF driver \in Workloads THEN MinJobs(driver)..MaxJobs
               ELSE {MinJobs(driver)}
    /\ cfgFixture \in IF driver = "waitxacts" THEN BOOLEAN ELSE {FALSE}
    /\ ctxDone = FALSE
    /\ runPc = "init"
    /\ ret = "none"
    /\ guard = 0
    /\ units = [i \in 1..MaxUnits |-> NoUnit]
    /\ warned = {}
    /\ tables = <<>>
    /\ fixture \in IF driver \in FixtureDrivers THEN {"absent", "present"} ELSE {"absent"}
    /\ rows = IF driver = "waitxacts" /\ fixture = "present" THEN 1 ELSE 0
    /\ prepared = "none"
    /\ cleanupSet = FALSE
    /\ cleaned = NoCleanup
    /\ interval = defaultConnInterval
    /\ prevInterval = defaultConnInterval
    /\ lastAttempt = "none"
    /\ conns = <<>>
    /\ opened = {}
    /\ closed = [c \in 1..MaxConns |-> 0]
    /\ workers = [i \in 1..MaxJobs |-> NoWorker]
    /\ ids = <<0, 0>>
    /\ edConns = 0
    /\ tx = [t \in 1..2 |-> NoTx]
    /\ lock = [r \in 1..MaxId |-> 0]
    /\ stats \in IF driver = "TopWriteTables" THEN [UserTables -> -1..MaxStat]
                 ELSE {[t \in UserTables |-> -1]}
    /\ limit \in IF driver = "TopWriteTables" THEN 0..MaxLimit ELSE {0}
    /\ answered = "none"
    /\ got = NoResult
    /\ dbTables \in IF driver = "Cleanup" THEN SUBSET Range(CleanupTables) ELSE {{}}
    /\ dropped = 0
    /\ rets = <<>>
    /\ unreached = FALSE
    /\ enabled \in IF driver = "runApplication"
                   THEN SUBSET {AppWorkloads[k] : k \in 1..MaxApps} ELSE {{}}
    /\ child = [w \in Range(AppWorkloads) |-> "off"]
    /\ appFile \in IF driver = "runApplication" THEN {"part_027", "cmd/app.go"}
                   ELSE {"part_027"}
    /\ logged = {}
    /\ now = 0
    /\ fireAt = 0
    /\ started = 0
    /\ reached = 0
    /\ dur \in IF driver = "startLoop" THEN 1..MaxDur ELSE {0}
    /\ tokens = 0
    /\ lost = 0
    /\ granted = 0
    /\ commits = 0
    /\ rollbacks = 0
    /\ kind \in IF driver = "NewWorkload" THEN PoolDrivers ELSE {"none"}
    /\ cfgMin \in IF kind \in RangeDrivers THEN Durations ELSE {Zero}
    /\ cfgMax \in IF kind \in RangeDrivers THEN Durations ELSE {Zero}
    /\ naptime = Zero
    /\ termCfg \in IF driver = "buildQuery" THEN TermConfigs ELSE {NoTermConfig}
    /\ query = <<>>
    /\ sx \in IF driver = "startSingleIdleXact"
              THEN [table : {"", "pg_class"}, naptime : 1..MaxDur, xact : {"none"},
                    begun : {0}, timer : {0}]
              ELSE {NoSx}
    /\ sess = [c \in 1..MaxSess |->
                IF driver = "execQuery" /\ c = 1 THEN [NoSess EXCEPT !.open = TRUE] ELSE NoSess]
    /\ spill = [q \in 1..MaxQueries |-> NoSpill]
    /\ warnArg \in IF driver = "deadlocks" THEN {"own", "outer"} ELSE {"own"}
    /\ errReads = {}
    /\ rng = [seed |-> 0, pos |-> 0]
    /\ draws = [a \in 1..MaxCalls |-> NoDraw]
    /\ sigG = "none"
    /\ appG = "none"
    /\ doExit = <<>>
    /\ rc = "none"
    /\ poolOpen = FALSE
    /\ rb \in IF driver = "throttle" THEN {[NoRb EXCEPT !.Jobs = c.Jobs, !.MinRate = c.MinRate,
                                   !.MaxRate = c.MaxRate] : c \in RateConfigs} ELSE {NoRb}

\* ------------------------------------------------------------- context
\* The deadline passes or the caller cancels: ctx.Done() becomes readable.
\* The context of startLoop ends at its deadline, with the passing of time
\* (SlTick).
Cancel ==
    /\ ~ctxDone
    /\ driver # "startLoop"
    /\ ctxDone' = TRUE
    /\ UNCHANGED <<driver, jobs, cfgFixture, runVars, poolVars, fcVars, wkVars, edVars, auxVars, extVars,
                   hnVars>>

\* Outcomes of a database call made with the context ctx: pgx returns the
\* context's error at once when ctx is already done.
CtxCall == IF ctxDone THEN {"err"} ELSE Errs

\* Outcomes of a database call made with context.Background()
BgCall == Errs

\* ---------------------------------------------- targeting.TopWriteTables
\* WHERE schemaname NOT IN (...): the user tables that have statistics
Qualifying(st) == {t \in UserTables : st[t] >= 0}

\* ORDER BY (n_tup_upd + n_tup_del) DESC
OrderBy_Asc(st, s) == \A i, j \in 1..Len(s) : i < j => st[s[i]] <= st[s[j]]

OrderBy(st, s) == \A i, j \in 1..Len(s) : i < j => st[s[i]] >= st[s[j]]

\* LIMIT $1
Limit(s, n) == SubSeq(s, 1, IF n < Len(s) THEN n ELSE Len(s))

\* The row sequences the query can return for the statistics st and the
\* limit n; tables with equal counts come in either order.
QueryRows(st, n) ==
    LET q == Qualifying(st)
    IN  {Limit(s, n) : s \in {f \in [1..Cardinality(q) -> q] :
                                 /\ \A i, j \in 1..Cardinality(q) : i # j => f[i] # f[j]
                                 /\ OrderBy(st, f)}}

\* TopWriteTables(db, n): db.Query fails (e = "err": return nil, err), or
\* tables := make([]string, 0, n) collects the rows in their order.
TopWriteTables(e, rws) ==
    IF e = "err"
    THEN [tables |-> <<>>, isNil |-> TRUE, err |-> "err"]
    ELSE [tables |-> rws, isNil |-> FALSE, err |-> "nil"]

\* One call of TopWriteTables(db, limit) against the statistics stats
TwtCall(e) ==
    /\ driver = "TopWriteTables"
    /\ runPc = "init"
    /\ e \in BgCall
    /\ answered' = e
    /\ \E rws \in QueryRows(stats, limit) : got' = TopWriteTables(e, rws)
    /\ runPc' = "returned"
    /\ ret' = got'.err
    /\ UNCHANGED <<ctxVars, poolVars, fcVars, wkVars, edVars, stats, limit, clVars,
                   appVars, extVars, hnVars>>

\* ------------------------------------------- guard-channel pool drivers
\* if w.config.Fixture || len(tables) == 0
UseFixture(ts) == cfgFixture \/ Len(ts) = 0

\* Units started and not yet finished
InFlight == {i \in 1..MaxUnits : units[i].st \in {"running", "returned"}}

\* Units ever started
Started == {i \in 1..MaxUnits : units[i].st # "none"}

\* Units of waitxacts holding the ACCESS EXCLUSIVE lock of table t
Holders(t) ==
    {j \in 1..MaxUnits : units[j].st = "running" /\ units[j].table = t /\ units[j].lk = "held"}

\* The table t of a waitxacts unit exists (the fixture table may be missing)
TableExists(t) == t = FixtureTable => fixture = "present"

\* func (db *PostgresDB) Close() { return }: the pool is left as it is
Close(open) == open

\* db.NewPostgresDB(ctx, conninfo); defer pool.Close().  terminate then
\* computes naptime, creates timer := time.NewTimer(naptime) and enters
\* the loop: the first iteration starts.
RunConnect(e) ==
    /\ driver \in PoolDrivers \cup {"terminate"}
    /\ runPc = "init"
    /\ e \in CtxCall
    /\ IF e = "err"
       THEN runPc' = "returned" /\ ret' = "err"
       ELSE /\ runPc' = CASE driver = "deadlocks" -> "prepare"
                          [] driver = "terminate" -> "signal"
                          [] OTHER -> "targets"
            /\ ret' = ret
    /\ IF e = "nil" /\ driver = "terminate"
       THEN fireAt' = now + TimerTicks /\ started' = now /\ reached' = now
       ELSE UNCHANGED termVars
    /\ UNCHANGED <<ctxVars, poolVars, fcVars, wkVars, edVars, auxVars, tmVars, slVars,
                   nwVars, bqVars, sx, eqVars, rcVars, rdVars, mnVars, rb>>
    /\ poolOpen' = (e = "nil")

\* What the query of TopWriteTables(pool, maxAffectedTables) can return,
\* over every content of pg_stat_user_tables
Selections ==
    UNION {QueryRows(st, maxAffectedTables) : st \in [UserTables -> -1..MaxStat]}

\* tables, err := targeting.TopWriteTables(pool, maxAffectedTables), the
\* query returning rws.  waitxacts then takes the fixture branch or goes to
\* startLoop.
RunTargets(e, rws) ==
    /\ driver \in {"idlexacts", "waitxacts"}
    /\ runPc = "targets"
    /\ e \in BgCall
    /\ rws \in Selections
    /\ LET r == TopWriteTables(e, rws)
       IN  IF r.err = "err"
           THEN runPc' = "returned" /\ ret' = "err" /\ tables' = tables
           ELSE /\ tables' = r.tables
                /\ ret' = ret
                /\ runPc' = IF driver = "waitxacts" /\ UseFixture(r.tables)
                            THEN "prepare" ELSE "loop"
    /\ UNCHANGED <<ctxVars, guard, units, warned, fixture, rows, prepared, cleanupSet,
                   cleaned, fcVars, wkVars, edVars, auxVars, extVars, sx, eqVars, rcVars, rdVars, mnVars,
                   rb>>
    /\ poolOpen' = IF runPc' = "returned" THEN Close(poolOpen) ELSE poolOpen

\* w.prepare(ctx), then the deferred cleanup is registered.
\* o = "err": a statement failed; o = "nocommit": waitxacts only, the
\* statements succeeded and the ignored tx.Commit failed; o = "nil": done.
\* deadlocks: CREATE TABLE IF NOT EXISTS.  waitxacts: CREATE TABLE IF NOT
\* EXISTS and INSERT ... VALUES (0) in one transaction;
\* tables = []string{"_noisia_waitxacts_workload"}.
RunPrepare(o) ==
    /\ driver \in FixtureDrivers
    /\ runPc = "prepare"
    /\ o \in IF ctxDone THEN {"err"}
             ELSE IF driver = "waitxacts" THEN {"nil", "nocommit", "err"}
             ELSE {"nil", "err"}
    /\ prepared' = o
    /\ IF o = "err"
       THEN /\ runPc' = "returned" /\ ret' = "err"
            /\ UNCHANGED <<tables, fixture, rows, cleanupSet>>
       ELSE /\ runPc' = "loop" /\ ret' = ret
            /\ fixture' = IF o = "nil" THEN "present" ELSE fixture
            /\ rows' = IF o = "nil" /\ driver = "waitxacts" THEN rows + 1 ELSE rows
            /\ tables' = IF driver = "waitxacts" THEN <<FixtureTable>> ELSE tables
            /\ cleanupSet' = TRUE
    /\ UNCHANGED <<ctxVars, guard, units, warned, cleaned, fcVars, wkVars, edVars,
                   auxVars, extVars, sx, eqVars, rcVars, rdVars, mnVars, rb>>
    /\ poolOpen' = IF runPc' = "returned" THEN Close(poolOpen) ELSE poolOpen

\* case guard <- struct{}{}: the send can proceed while the channel,
\* of capacity Jobs, is not full
CanSend_NoBound == guard <= jobs

CanSend == guard < jobs

\* selectRandomTable(tables): the values it can return
selectRandomTable(ts) == IF Len(ts) = 0 THEN {""} ELSE Range(ts)

RunAdmit_WhenEmpty(tb) ==
    /\ driver \in PoolDrivers
    /\ runPc = "loop"
    /\ guard = 0
    /\ Cardinality(Started) < MaxUnits
    /\ tb \in IF driver = "deadlocks" THEN {"none"} ELSE selectRandomTable(tables)
    /\ guard' = guard + 1
    /\ units' = [units EXCEPT ![Cardinality(Started) + 1] =
                    [st |-> "running", err |-> "none", table |-> tb, lk |-> "none"]]
    /\ UNCHANGED <<ctxVars, runVars, warned, tables, fixture, rows, prepared,
                   cleanupSet, cleaned, fcVars, wkVars, edVars, auxVars, extVars, hnVars>>

\* The select takes the send case and starts a worker goroutine, which
\* picks its table tb (idlexacts, waitxacts).
RunAdmit(tb) ==
    /\ driver \in PoolDrivers
    /\ runPc = "loop"
    /\ CanSend
    /\ Cardinality(Started) < MaxUnits
    /\ tb \in IF driver = "deadlocks" THEN {"none"} ELSE selectRandomTable(tables)
    /\ guard' = guard + 1
    /\ units' = [units EXCEPT ![Cardinality(Started) + 1] =
                    [st |-> "running", err |-> "none", table |-> tb, lk |-> "none"]]
    /\ UNCHANGED <<ctxVars, runVars, warned, tables, fixture, rows, prepared,
                   cleanupSet, cleaned, fcVars, wkVars, edVars, auxVars, extVars, hnVars>>

\* DROP TABLE IF EXISTS t, where c is the outcome of getting the statement
\* to the server and exists tells whether t is there: no error when absent
DropIfExists_MustExist(c, exists) == IF exists THEN c ELSE "err"

DropIfExists(c, exists) == c

\* The select takes case <-ctx.Done(): return nil.  The deferred calls run:
\* cleanup() when registered (its error is only logged), then pool.Close().
\* DROP TABLE waits for the ACCESS EXCLUSIVE lock of a waitxacts unit.
RunObserveCancel(c) ==
    /\ driver \in PoolDrivers
    /\ runPc = "loop"
    /\ ctxDone
    /\ c \in IF cleanupSet THEN BgCall ELSE {"nil"}
    /\ (driver = "waitxacts" /\ cleanupSet /\ c = "nil" /\ fixture = "present")
         => Holders(FixtureTable) = {}
    /\ runPc' = "returned"
    /\ ret' = "nil"
    /\ IF cleanupSet
       THEN LET res == DropIfExists(c, fixture = "present")
            IN  /\ cleaned' = [found |-> IF c = "nil" THEN fixture ELSE "unreached",
                               res |-> res]
                /\ fixture' = IF res = "nil" THEN "absent" ELSE fixture
                /\ rows' = IF res = "nil" THEN 0 ELSE rows
       ELSE UNCHANGED <<cleaned, fixture, rows>>
    /\ UNCHANGED <<ctxVars, guard, units, warned, tables, prepared, cleanupSet, fcVars,
                   wkVars, edVars, auxVars, extVars, sx, eqVars, rcVars, rdVars, mnVars,
                   rb>>
    /\ poolOpen' = IF runPc' = "returned" THEN Close(poolOpen) ELSE poolOpen

\* lockTable: pool.Begin(ctx) succeeded and LOCK TABLE t IN ACCESS EXCLUSIVE
\* MODE is sent; the statement waits while another transaction holds the lock
UnitLock(i) ==
    /\ driver = "waitxacts"
    /\ units[i].st = "running"
    /\ units[i].lk = "none"
    /\ ~ctxDone
    /\ TableExists(units[i].table)
    /\ units' = [units EXCEPT ![i].lk = "asked"]
    /\ UNCHANGED <<ctxVars, runVars, guard, warned, tables, fixture, rows, prepared,
                   cleanupSet, cleaned, fcVars, wkVars, edVars, auxVars, extVars, hnVars>>

\* The server grants the lock: tx.Exec returns nil and the timer is started
UnitGranted(i) ==
    /\ driver = "waitxacts"
    /\ units[i].st = "running"
    /\ units[i].lk = "asked"
    /\ ~ctxDone
    /\ TableExists(units[i].table)
    /\ Holders(units[i].table) = {}
    /\ units' = [units EXCEPT ![i].lk = "held"]
    /\ UNCHANGED <<ctxVars, runVars, guard, warned, tables, fixture, rows, prepared,
                   cleanupSet, cleaned, fcVars, wkVars, edVars, auxVars, extVars, hnVars>>

\* Run's deferred closure has executed err = w.cleanup(): it runs when Run
\* returns from its loop with the cleanup registered
ErrWritten == runPc = "returned" /\ cleaned.res # "none"

\* w.logger.Warnf("deadlock failed: %s", err) in the goroutine of unit i:
\* the argument is the goroutine's own variable (err := executeDeadlock(...))
\* or, where the result is kept in derr, the variable err of Run, which the
\* goroutine then reads; the read is recorded with whether Run's deferred
\* closure has already written the variable
WarnfReads(i) ==
    IF warnArg = "outer" THEN {[unit |-> i, written |-> ErrWritten]} ELSE {}

\* The unit's work (executeDeadlock, startSingleIdleXact, lockTable) returns e;
\* the goroutine logs an error (lockTable has no result to log).  lockTable
\* returns from its select (e = "nil") only with the lock held; the deferred
\* Rollback gives the lock back.
UnitReturn_Propagates(i, e) ==
    /\ driver \in PoolDrivers
    /\ units[i].st = "running"
    /\ e \in Errs
    /\ driver = "waitxacts" /\ e = "nil" => units[i].lk = "held"
    /\ units' = [units EXCEPT ![i] = [st |-> "returned", err |-> e, table |-> "none",
                                      lk |-> "none"]]
    /\ warned' = IF e = "err" /\ driver # "waitxacts" THEN warned \cup {i} ELSE warned
    /\ errReads' = IF e = "err" THEN errReads \cup WarnfReads(i) ELSE errReads
    /\ IF e = "err" /\ runPc = "loop"
       THEN runPc' = "returned" /\ ret' = "err"
       ELSE UNCHANGED runVars
    /\ UNCHANGED <<ctxVars, guard, tables, fixture, rows, prepared, cleanupSet, cleaned,
                   fcVars, wkVars, edVars, auxVars, extVars, sx, eqVars, warnArg, rdVars,
                   mnVars, poolOpen, rb>>

UnitReturn(i, e) ==
    /\ driver \in PoolDrivers
    /\ units[i].st = "running"
    /\ e \in Errs
    /\ driver = "waitxacts" /\ e = "nil" => units[i].lk = "held"
    /\ units' = [units EXCEPT ![i] = [st |-> "returned", err |-> e, table |-> "none",
                                      lk |-> "none"]]
    /\ warned' = IF e = "err" /\ driver # "waitxacts" THEN warned \cup {i} ELSE warned
    /\ errReads' = IF e = "err" THEN errReads \cup WarnfReads(i) ELSE errReads
    /\ UNCHANGED <<ctxVars, runVars, guard, tables, fixture, rows, prepared, cleanupSet,
                   cleaned, fcVars, wkVars, edVars, auxVars, extVars, sx, eqVars, warnArg,
                   rdVars, mnVars, poolOpen, rb>>

\* <-guard: the worker gives its slot back and ends.
UnitRelease_OnSuccessOnly(i) ==
    /\ driver \in PoolDrivers
    /\ units[i].st = "returned"
    /\ guard' = IF units[i].err = "nil" THEN guard - 1 ELSE guard
    /\ units' = [units EXCEPT ![i].st = "finished"]
    /\ UNCHANGED <<ctxVars, runVars, warned, tables, fixture, rows, prepared,
                   cleanupSet, cleaned, fcVars, wkVars, edVars, auxVars, extVars, hnVars>>

UnitRelease(i) ==
    /\ driver \in PoolDrivers
    /\ units[i].st = "returned"
    /\ guard' = guard - 1
    /\ units' = [units EXCEPT ![i].st = "finished"]
    /\ UNCHANGED <<ctxVars, runVars, warned, tables, fixture, rows, prepared,
                   cleanupSet, cleaned, fcVars, wkVars, edVars, auxVars, extVars, hnVars>>

\* ------------------------------------------------------------ failconns
\* defaultConnInterval, conns, interval, timer are set up; the loop begins.
FcStart ==
    /\ driver = "failconns"
    /\ runPc = "init"
    /\ runPc' = "loop"
    /\ UNCHANGED <<ctxVars, ret, poolVars, fcVars, wkVars, edVars, auxVars, extVars, hnVars>>

\* interval = interval * 2
Backoff(iv) == Mul2(iv)

\* if interval > defaultConnInterval { interval = interval / 2 }
Recover(iv) == IF Gt(iv, defaultConnInterval) THEN Div2(iv) ELSE iv

\* case <-timer.C: one connection attempt, then timer.Reset(interval).
\* The server accepts at most MaxConns connections.
FcAttempt(e) ==
    /\ driver = "failconns"
    /\ runPc = "loop"
    /\ e \in IF Len(conns) < MaxConns THEN CtxCall ELSE {"err"}
    /\ prevInterval' = interval
    /\ IF e = "err"
       THEN /\ interval' = Backoff(interval)
            /\ lastAttempt' = "fail"
            /\ UNCHANGED <<conns, opened, extVars>>
       ELSE /\ conns' = Append(conns, Cardinality(opened) + 1)
            /\ opened' = opened \cup {Cardinality(opened) + 1}
            /\ interval' = Recover(interval)
            /\ lastAttempt' = "ok"
    /\ UNCHANGED <<ctxVars, runVars, poolVars, closed, wkVars, edVars, auxVars, extVars, hnVars>>

\* cleanup(conns): for i := range conns { _ = conns[i].Close() }
cleanup_SkipLast(cs) ==
    [c \in 1..MaxConns |->
        closed[c] + Cardinality({i \in 1..(Len(cs) - 1) : cs[i] = c})]

cleanup(cs) ==
    [c \in 1..MaxConns |-> closed[c] + Cardinality({i \in 1..Len(cs) : cs[i] = c})]

\* case <-ctx.Done(): w.cleanup(conns); return nil
FcObserveCancel ==
    /\ driver = "failconns"
    /\ runPc = "loop"
    /\ ctxDone
    /\ closed' = cleanup(conns)
    /\ runPc' = "returned"
    /\ ret' = "nil"
    /\ UNCHANGED <<ctxVars, poolVars, interval, prevInterval, lastAttempt, conns,
                   opened, wkVars, edVars, auxVars, extVars, hnVars>>

\* ------------------------------------------------------------ terminate
\* One tick of time passes while signalProcess runs or while the select
\* waits; a select with a readable case goes on at once.
TermTick ==
    /\ driver = "terminate"
    /\ \/ runPc = "signal"
       \/ runPc = "select" /\ now < fireAt /\ ~ctxDone
    /\ now < MaxNow
    /\ now' = now + 1
    /\ UNCHANGED <<ctxVars, runVars, poolVars, fcVars, wkVars, edVars, auxVars, termVars,
                   slVars, nwVars, bqVars, hnVars>>

\* signalProcess(ctx, pool, w.config); an error is logged
TermSignal(e) ==
    /\ driver = "terminate"
    /\ runPc = "signal"
    /\ e \in CtxCall
    /\ runPc' = "select"
    /\ reached' = now
    /\ UNCHANGED <<ctxVars, ret, poolVars, fcVars, wkVars, edVars, auxVars, tmVars, fireAt,
                   started, slVars, nwVars, bqVars, hnVars>>

\* timer.C is readable: naptime has passed since NewTimer or the last Reset
TimerFired_Always == TRUE

TimerFired == now >= fireAt

\* case <-timer.C: timer.Reset(naptime); continue: the next iteration starts
TermTimer ==
    /\ driver = "terminate"
    /\ runPc = "select"
    /\ TimerFired
    /\ runPc' = "signal"
    /\ fireAt' = now + TimerTicks
    /\ started' = now
    /\ UNCHANGED <<ctxVars, ret, poolVars, fcVars, wkVars, edVars, auxVars, tmVars, reached,
                   slVars, nwVars, bqVars, hnVars>>

\* case <-ctx.Done(): return nil
TermObserveCancel ==
    /\ driver = "terminate"
    /\ runPc = "select"
    /\ ctxDone
    /\ runPc' = "returned"
    /\ ret' = "nil"
    /\ UNCHANGED <<ctxVars, poolVars, fcVars, wkVars, edVars, auxVars, extVars, sx, eqVars, rcVars, rdVars, mnVars,
                   rb>>
    /\ poolOpen' = IF runPc' = "returned" THEN Close(poolOpen) ELSE poolOpen

\* ------------------------------ WaitGroup drivers: forkconns, rollbacks, tempfiles
Jobs == 1..jobs

\* tempfiles: bytesBefore, err := countTempBytes(conninfo), on a private context
RunCountBefore(e) ==
    /\ driver = "tempfiles"
    /\ runPc = "init"
    /\ e \in BgCall
    /\ IF e = "err"
       THEN runPc' = "returned" /\ ret' = "err"
       ELSE runPc' = "spawn" /\ ret' = ret
    /\ UNCHANGED <<ctxVars, poolVars, fcVars, wkVars, edVars, auxVars, extVars, hnVars>>

\* wg.Add(workers); one goroutine per job; then Run blocks in wg.Wait()
RunSpawn ==
    /\ driver \in WorkerDrivers
    /\ runPc = IF driver = "tempfiles" THEN "spawn" ELSE "init"
    /\ workers' = [i \in 1..MaxJobs |->
                      IF i \in Jobs THEN [NoWorker EXCEPT !.pc = "work"] ELSE NoWorker]
    /\ runPc' = "wait"
    /\ UNCHANGED <<ctxVars, ret, poolVars, fcVars, edVars, auxVars, extVars, hnVars>>

\* The worker's database work before it reaches its select.
\*   forkconns: db.Connect, conn.Exec, conn.Close; any error ends the worker
\*   rollbacks: db.Connect (error returned), createTempTable (error logged
\*              by runWorker, which returns nil)
\*   tempfiles: db.NewPostgresDB (error returned)
WorkerWork(i, o) ==
    /\ driver \in WorkerDrivers
    /\ i \in Jobs
    /\ workers[i].pc = "work"
    /\ o \in IF ctxDone THEN {"err"}
             ELSE IF driver = "rollbacks" THEN {"nil", "err", "tblerr"}
             ELSE {"nil", "err"}
    /\ workers' = [workers EXCEPT ![i] =
          CASE o = "nil" -> [@ EXCEPT !.pc = "select"]
            [] o = "err" -> [@ EXCEPT !.pc = "done", !.err = "err"]
            [] o = "tblerr" -> [@ EXCEPT !.pc = "done", !.err = "nil"]]
    /\ UNCHANGED <<ctxVars, runVars, poolVars, fcVars, edVars, auxVars, extVars, hnVars>>

\* forkconns: case <-timer.C: timer.Reset(naptime); continue
WorkerTimer(i) ==
    /\ driver = "forkconns"
    /\ i \in Jobs
    /\ workers[i].pc = "select"
    /\ workers[i].iters < MaxIters
    /\ workers' = [workers EXCEPT ![i].pc = "work", ![i].iters = @ + 1]
    /\ UNCHANGED <<ctxVars, runVars, poolVars, fcVars, edVars, auxVars, extVars, hnVars>>

\* rollbacks: one iteration of the loop in which limiter.Allow() grants: a
\* statement is executed and counted, then the select returns when
\* ctx.Done() is readable and takes default otherwise
WorkerStmt(i) ==
    /\ driver = "rollbacks"
    /\ i \in Jobs
    /\ workers[i].pc = "select"
    /\ workers[i].iters < MaxIters
    /\ workers' = [workers EXCEPT ![i] =
          IF ctxDone THEN [@ EXCEPT !.iters = @ + 1, !.pc = "done", !.err = "nil"]
          ELSE [@ EXCEPT !.iters = @ + 1]]
    /\ UNCHANGED <<ctxVars, runVars, poolVars, fcVars, edVars, auxVars, extVars, hnVars>>

\* tempfiles: one iteration of the loop in which limiter.Allow() grants:
\* wg.Add(1); go execQuery(ctx, pool); then the select goes to wg.Wait()
\* when ctx.Done() is readable and takes default otherwise
WorkerQuery(i) ==
    /\ driver = "tempfiles"
    /\ i \in Jobs
    /\ workers[i].pc = "select"
    /\ workers[i].iters < MaxIters
    /\ workers' = [workers EXCEPT ![i] =
          IF ctxDone THEN [@ EXCEPT !.iters = @ + 1, !.queries = @ + 1, !.pc = "drain"]
          ELSE [@ EXCEPT !.iters = @ + 1, !.queries = @ + 1]]
    /\ UNCHANGED <<ctxVars, runVars, poolVars, fcVars, edVars, auxVars, extVars, hnVars>>

\* tempfiles: a query goroutine ends: wg.Done()
QueryDone(i) ==
    /\ driver = "tempfiles"
    /\ i \in Jobs
    /\ workers[i].queries > 0
    /\ workers' = [workers EXCEPT ![i].queries = @ - 1]
    /\ UNCHANGED <<ctxVars, runVars, poolVars, fcVars, edVars, auxVars, extVars, hnVars>>

\* case <-ctx.Done(), in rollbacks and tempfiles after an iteration in
\* which limiter.Allow() denied: forkconns and rollbacks return; tempfiles
\* goes to wg.Wait()
WorkerObserveCancel(i) ==
    /\ driver \in WorkerDrivers
    /\ i \in Jobs
    /\ workers[i].pc = "select"
    /\ ctxDone
    /\ workers' = [workers EXCEPT ![i] =
          IF driver = "tempfiles" THEN [@ EXCEPT !.pc = "drain"]
          ELSE [@ EXCEPT !.pc = "done", !.err = "nil"]]
    /\ UNCHANGED <<ctxVars, runVars, poolVars, fcVars, edVars, auxVars, extVars, hnVars>>

\* tempfiles startLoop: wg.Wait() returns once every query goroutine is done
WorkerDrained_NoWait(i) ==
    /\ driver = "tempfiles"
    /\ i \in Jobs
    /\ workers[i].pc = "drain"
    /\ workers' = [workers EXCEPT ![i].pc = "done", ![i].err = "nil"]
    /\ UNCHANGED <<ctxVars, runVars, poolVars, fcVars, edVars, auxVars, extVars, hnVars>>

WorkerDrained(i) ==
    /\ driver = "tempfiles"
    /\ i \in Jobs
    /\ workers[i].pc = "drain"
    /\ workers[i].queries = 0
    /\ workers' = [workers EXCEPT ![i].pc = "done", ![i].err = "nil"]
    /\ UNCHANGED <<ctxVars, runVars, poolVars, fcVars, edVars, auxVars, extVars, hnVars>>

\* wg.Wait() returns when every worker has called wg.Done().  forkconns and
\* rollbacks return nil; tempfiles calls countTempBytes again and returns
\* its error.
RunWaitDone(e) ==
    /\ driver \in WorkerDrivers
    /\ runPc = "wait"
    /\ \A i \in Jobs : workers[i].pc = "done"
    /\ e \in IF driver = "tempfiles" THEN BgCall ELSE {"nil"}
    /\ runPc' = "returned"
    /\ ret' = e
    /\ UNCHANGED <<ctxVars, poolVars, fcVars, wkVars, edVars, auxVars, extVars, hnVars>>

\* ------------------------------------------------------ executeDeadlock
\* One call of executeDeadlock(ctx, log, conninfo); runPc is its position.
Txs == {1, 2}
Other(t) == 3 - t

\* runUpdateXact(ctx, conn1, id1, id2) and runUpdateXact(ctx, conn2, id2, id1)
FirstId(t) == IF t = 1 THEN ids[1] ELSE ids[2]
SecondId(t) == IF t = 1 THEN ids[2] ELSE ids[1]

\* conn1, err := db.Connect(ctx, conninfo)
EdConnect1(e) ==
    /\ driver = "executeDeadlock"
    /\ runPc = "init"
    /\ e \in CtxCall
    /\ IF e = "err"
       THEN runPc' = "returned" /\ ret' = "err" /\ edConns' = edConns
       ELSE runPc' = "conn2" /\ ret' = ret /\ edConns' = 1
    /\ UNCHANGED <<ctxVars, poolVars, fcVars, wkVars, auxVars, extVars, ids, tx, lock, hnVars>>

\* conn2, err := db.Connect(ctx, conninfo)
EdConnect2(e) ==
    /\ driver = "executeDeadlock"
    /\ runPc = "conn2"
    /\ e \in CtxCall
    /\ IF e = "err"
       THEN runPc' = "returned" /\ ret' = "err" /\ edConns' = edConns
       ELSE runPc' = "insert" /\ ret' = ret /\ edConns' = 2
    /\ UNCHANGED <<ctxVars, poolVars, fcVars, wkVars, auxVars, extVars, ids, tx, lock, hnVars>>

\* id1, id2 := rand.Int(), rand.Int(); INSERT of the two rows; then both
\* runUpdateXact goroutines are started (wg.Add(1); go func() twice).
EdInsert(e, a, b) ==
    /\ driver = "executeDeadlock"
    /\ runPc = "insert"
    /\ e \in CtxCall
    /\ a \in 1..MaxId
    /\ b \in 1..MaxId
    /\ ids' = <<a, b>>
    /\ IF e = "err"
       THEN runPc' = "returned" /\ ret' = "err" /\ tx' = tx
       ELSE /\ runPc' = "wait" /\ ret' = ret
            /\ tx' = [t \in Txs |-> [NoTx EXCEPT !.pc = "begin"]]
    /\ UNCHANGED <<ctxVars, poolVars, fcVars, wkVars, auxVars, extVars, edConns, lock, hnVars>>

\* Locks of t given back when its transaction ends (commit or rollback)
Released(t) == [r \in 1..MaxId |-> IF lock[r] = t THEN 0 ELSE lock[r]]

\* The goroutine of t ends with result res: deferred tx.Rollback, wg.Done()
TxEnd(t, res) ==
    /\ tx' = [tx EXCEPT ![t] = [pc |-> "done", res |-> res, wait |-> 0]]
    /\ lock' = Released(t)

\* tx, err := conn.Begin(ctx)
TxBegin(t, e) ==
    /\ driver = "executeDeadlock"
    /\ tx[t].pc = "begin"
    /\ e \in BgCall
    /\ IF e = "err"
       THEN TxEnd(t, "error")
       ELSE tx' = [tx EXCEPT ![t].pc = "upd1"] /\ lock' = lock
    /\ UNCHANGED <<ctxVars, runVars, poolVars, fcVars, wkVars, auxVars, extVars, ids, edConns, hnVars>>

\* tx.Exec(UPDATE ... WHERE id = r): the row lock is taken when it is free
\* or already held by t; otherwise the statement waits for it.
TxUpdate(t) ==
    /\ driver = "executeDeadlock"
    /\ tx[t].pc \in {"upd1", "upd2"}
    /\ LET r == IF tx[t].pc = "upd1" THEN FirstId(t) ELSE SecondId(t)
           next == IF tx[t].pc = "upd1" THEN "sleep" ELSE "commit"
           waiting == IF tx[t].pc = "upd1" THEN "wait1" ELSE "wait2"
       IN  IF lock[r] \in {0, t}
           THEN /\ lock' = [lock EXCEPT ![r] = t]
                /\ tx' = [tx EXCEPT ![t].pc = next]
           ELSE /\ lock' = lock
                /\ tx' = [tx EXCEPT ![t].pc = waiting, ![t].wait = r]
    /\ UNCHANGED <<ctxVars, runVars, poolVars, fcVars, wkVars, auxVars, extVars, ids, edConns, hnVars>>

\* The lock a waiting UPDATE needs has been released: the UPDATE completes.
TxGranted(t) ==
    /\ driver = "executeDeadlock"
    /\ tx[t].pc \in {"wait1", "wait2"}
    /\ lock[tx[t].wait] = 0
    /\ lock' = [lock EXCEPT ![tx[t].wait] = t]
    /\ tx' = [tx EXCEPT ![t].pc = IF tx[t].pc = "wait1" THEN "sleep" ELSE "commit",
                        ![t].wait = 0]
    /\ UNCHANGED <<ctxVars, runVars, poolVars, fcVars, wkVars, auxVars, extVars, ids, edConns, hnVars>>

\* Each transaction waits for a lock the other one holds.
LockCycle ==
    \A t \in Txs : tx[t].wait # 0 /\ lock[tx[t].wait] = Other(t)

\* PostgreSQL's deadlock detector aborts one of the two: the UPDATE of the
\* victim v returns "deadlock detected" (SQLSTATE 40P01).
TxDeadlock(v) ==
    /\ driver = "executeDeadlock"
    /\ v \in Txs
    /\ LockCycle
    /\ TxEnd(v, "deadlock")
    /\ UNCHANGED <<ctxVars, runVars, poolVars, fcVars, wkVars, auxVars, extVars, ids, edConns, hnVars>>

\* An UPDATE fails for another reason (connection lost, statement cancelled).
TxExecErr(t) ==
    /\ driver = "executeDeadlock"
    /\ tx[t].pc \in {"upd1", "upd2", "wait1", "wait2"}
    /\ TxEnd(t, "error")
    /\ UNCHANGED <<ctxVars, runVars, poolVars, fcVars, wkVars, auxVars, extVars, ids, edConns, hnVars>>

\* time.Sleep(10 * time.Millisecond)
TxSleep(t) ==
    /\ driver = "executeDeadlock"
    /\ tx[t].pc = "sleep"
    /\ tx' = [tx EXCEPT ![t].pc = "upd2"]
    /\ UNCHANGED <<ctxVars, runVars, poolVars, fcVars, wkVars, auxVars, extVars, ids, edConns, lock,
                   hnVars>>

\* return tx.Commit(ctx)
TxCommit(t, e) ==
    /\ driver = "executeDeadlock"
    /\ tx[t].pc = "commit"
    /\ e \in BgCall
    /\ TxEnd(t, IF e = "nil" THEN "commit" ELSE "error")
    /\ UNCHANGED <<ctxVars, runVars, poolVars, fcVars, wkVars, auxVars, extVars, ids, edConns, hnVars>>

\* wg.Wait() returns when both goroutines have called wg.Done()
WaitGroupDone_FirstOnly == tx[1].pc = "done"

WaitGroupDone == \A t \in Txs : tx[t].pc = "done"

\* wg.Wait(); return nil
EdReturn ==
    /\ driver = "executeDeadlock"
    /\ runPc = "wait"
    /\ WaitGroupDone
    /\ runPc' = "returned"
    /\ ret' = "nil"
    /\ UNCHANGED <<ctxVars, poolVars, fcVars, wkVars, edVars, auxVars, extVars, hnVars>>

\* --------------------------------------------------------- noisia.Cleanup
\* One call of Cleanup(ctx, dsn) after the other; runPc is its position.
\* conn, err := pgx.Connect(ctx, dsn)
ClConnect(e) ==
    /\ driver = "Cleanup"
    /\ runPc = "init"
    /\ e \in CtxCall
    /\ dropped' = 0
    /\ IF e = "err"
       THEN /\ runPc' = "returned" /\ ret' = "err"
            /\ rets' = Append(rets, "err")
            /\ unreached' = TRUE
       ELSE /\ runPc' = "drop" /\ ret' = ret
            /\ rets' = rets
            /\ unreached' = FALSE
    /\ UNCHANGED <<ctxVars, poolVars, fcVars, wkVars, edVars, twVars, dbTables, appVars, extVars,
                   hnVars>>

\* One iteration of for _, t := range tables: DROP TABLE IF EXISTS t, an
\* error is returned; return nil after the last table.
ClDrop(e) ==
    /\ driver = "Cleanup"
    /\ runPc = "drop"
    /\ e \in CtxCall
    /\ LET t == CleanupTables[dropped + 1]
           res == DropIfExists(e, t \in dbTables)
       IN  IF res = "err"
           THEN /\ runPc' = "returned" /\ ret' = "err"
                /\ rets' = Append(rets, "err")
                /\ unreached' = (e = "err")
                /\ UNCHANGED <<dbTables, dropped, extVars>>
           ELSE /\ dbTables' = dbTables \ {t}
                /\ dropped' = dropped + 1
                /\ unreached' = unreached
                /\ IF dropped + 1 = Len(CleanupTables)
                   THEN runPc' = "returned" /\ ret' = "nil" /\ rets' = Append(rets, "nil")
                   ELSE runPc' = runPc /\ ret' = ret /\ rets' = rets
    /\ UNCHANGED <<ctxVars, poolVars, fcVars, wkVars, edVars, twVars, appVars, extVars, hnVars>>

\* Cleanup is called once more (noisia --cleanup is run again).
ClAgain ==
    /\ driver = "Cleanup"
    /\ runPc = "returned"
    /\ Len(rets) < MaxCalls
    /\ runPc' = "init"
    /\ ret' = "none"
    /\ UNCHANGED <<ctxVars, poolVars, fcVars, wkVars, edVars, auxVars, extVars, hnVars>>

\* -------------------------------------------------------- runApplication
\* One call of runApplication(ctx, c, log); runPc is its position.
\* if c.<workload> { wg.Add(1); go func() {...}() }, in the order of the code:
\* k is the first requested workload not started yet
AppLaunch(k) ==
    /\ driver = "runApplication"
    /\ runPc = "init"
    /\ k \in 1..Len(AppWorkloads)
    /\ AppWorkloads[k] \in enabled
    /\ child[AppWorkloads[k]] = "off"
    /\ \A j \in 1..(k - 1) : AppWorkloads[j] \in enabled => child[AppWorkloads[j]] # "off"
    /\ child' = [child EXCEPT ![AppWorkloads[k]] = "new"]
    /\ UNCHANGED <<ctxVars, runVars, poolVars, fcVars, wkVars, edVars, twVars, clVars,
                   enabled, appFile, logged, extVars, hnVars>>

\* Every requested workload is started: runApplication blocks in wg.Wait()
AppWait ==
    /\ driver = "runApplication"
    /\ runPc = "init"
    /\ \A w \in enabled : child[w] # "off"
    /\ runPc' = "wait"
    /\ UNCHANGED <<ctxVars, ret, poolVars, fcVars, wkVars, edVars, auxVars, extVars, hnVars>>

\* The goroutine of w calls wg.Done() before it logs the error: in cmd/app.go
\* startIdleXactsWorkload defers wg.Done() and returns the error to the
\* goroutine, which logs it; the other start<W>Workload of cmd/app.go print
\* the error themselves, and the goroutines of part_027 log the error and
\* then call wg.Done()
DoneBeforeLog(w) == appFile = "cmd/app.go" /\ w = "idlexacts"

\* start<W>Workload: NewWorkload(config, logger) returns e; an error is
\* returned to the goroutine, which logs it and calls wg.Done()
ChildNew(w, e) ==
    /\ driver = "runApplication"
    /\ child[w] = "new"
    /\ e \in Errs
    /\ child' = [child EXCEPT ![w] = IF e = "err" THEN "failed" ELSE "run"]
    /\ logged' = IF e = "err" /\ ~DoneBeforeLog(w) THEN logged \cup {w} ELSE logged
    /\ UNCHANGED <<ctxVars, runVars, poolVars, fcVars, wkVars, edVars, twVars, clVars,
                   enabled, appFile, extVars, hnVars>>

\* return workload.Run(ctx): Run returns an error at any time, or nil once
\* the context is done; the goroutine logs an error and calls wg.Done()
ChildRun_CancelsContext(w, e) ==
    /\ driver = "runApplication"
    /\ child[w] = "run"
    /\ e \in IF ctxDone THEN Errs ELSE {"err"}
    /\ child' = [child EXCEPT ![w] = IF e = "err" THEN "failed" ELSE "done"]
    /\ logged' = IF e = "err" /\ ~DoneBeforeLog(w) THEN logged \cup {w} ELSE logged
    /\ ctxDone' = (ctxDone \/ e = "err")
    /\ UNCHANGED <<driver, jobs, cfgFixture, runVars, poolVars, fcVars, wkVars, edVars,
                   twVars, clVars, enabled, appFile, extVars, hnVars>>

ChildRun(w, e) ==
    /\ driver = "runApplication"
    /\ child[w] = "run"
    /\ e \in IF ctxDone THEN Errs ELSE {"err"}
    /\ child' = [child EXCEPT ![w] = IF e = "err" THEN "failed" ELSE "done"]
    /\ logged' = IF e = "err" /\ ~DoneBeforeLog(w) THEN logged \cup {w} ELSE logged
    /\ UNCHANGED <<ctxVars, runVars, poolVars, fcVars, wkVars, edVars, twVars, clVars,
                   enabled, appFile, extVars, hnVars>>

\* cmd/app.go: the goroutine of idlexacts goes on after startIdleXactsWorkload
\* has returned the error and its deferred wg.Done() has run:
\* log.Errorf("idle transactions workload failed: %s", err)
ChildLog(w) ==
    /\ driver = "runApplication"
    /\ child[w] = "failed"
    /\ DoneBeforeLog(w)
    /\ w \notin logged
    /\ logged' = logged \cup {w}
    /\ UNCHANGED <<ctxVars, runVars, poolVars, fcVars, wkVars, edVars, twVars, clVars,
                   enabled, child, appFile, extVars, hnVars>>

\* wg.Wait() returns; return nil; the deferred cancel() runs
AppReturn ==
    /\ driver = "runApplication"
    /\ runPc = "wait"
    /\ \A w \in enabled : child[w] \in {"failed", "done"}
    /\ runPc' = "returned"
    /\ ret' = "nil"
    /\ ctxDone' = TRUE
    /\ UNCHANGED <<driver, jobs, cfgFixture, poolVars, fcVars, wkVars, edVars, auxVars, extVars, hnVars>>

\* ------------------------------------------------ rollbacks startLoop
\* conn.Exec(ctx, q, args...) of the statement newErrQuery builds for
\* idx := rand.Intn(total): each of the cases 0 .. total-1 is erroneous
ExecErrQuery_LastSucceeds(idx) == IF idx = total - 1 THEN "nil" ELSE "err"

ExecErrQuery(idx) == "err"

\* One limiter period passes.  rate.NewLimiter(rate.Limit(r), 1) holds at
\* most one token; the deadline of ctx is dur periods after the call.
SlTick ==
    /\ driver = "startLoop"
    /\ runPc # "returned"
    /\ now <= dur
    /\ now' = now + 1
    /\ tokens' = IF runPc = "init" THEN tokens ELSE 1
    /\ lost' = IF runPc = "init" \/ tokens = 1 THEN lost + 1 ELSE lost
    /\ ctxDone' = (now + 1 >= dur)
    /\ UNCHANGED <<driver, jobs, cfgFixture, runVars, poolVars, fcVars, wkVars, edVars,
                   auxVars, termVars, nwVars, bqVars, dur, granted,
                   commits, rollbacks, hnVars>>

\* table, err := createTempTable(ctx, conn): an error is returned with
\* both counters 0; then the limiter is created with a full bucket.
SlCreateTempTable(e) ==
    /\ driver = "startLoop"
    /\ runPc = "init"
    /\ e \in CtxCall
    /\ IF e = "err"
       THEN runPc' = "returned" /\ ret' = "err" /\ tokens' = tokens
       ELSE runPc' = "loop" /\ ret' = ret /\ tokens' = 1
    /\ UNCHANGED <<ctxVars, poolVars, fcVars, wkVars, edVars, auxVars, tmVars, termVars, nwVars, bqVars, dur, lost,
                   granted, commits, rollbacks, hnVars>>

\* if limiter.Allow() { ... conn.Exec is issued }, or not allowed
SlAllow ==
    /\ driver = "startLoop"
    /\ runPc = "loop"
    /\ IF tokens >= 1
       THEN tokens' = tokens - 1 /\ granted' = granted + 1 /\ runPc' = "exec"
       ELSE tokens' = tokens /\ granted' = granted /\ runPc' = "select"
    /\ UNCHANGED <<ctxVars, ret, poolVars, fcVars, wkVars, edVars, auxVars, tmVars, termVars, nwVars, bqVars, dur,
                   lost, commits, rollbacks, hnVars>>

\* conn.Exec returns: if err != nil { rollbacks++ } else { commits++ }
SlExec(idx) ==
    /\ driver = "startLoop"
    /\ runPc = "exec"
    /\ idx \in 0..(total - 1)
    /\ IF ExecErrQuery(idx) = "err"
       THEN rollbacks' = rollbacks + 1 /\ commits' = commits
       ELSE commits' = commits + 1 /\ rollbacks' = rollbacks
    /\ runPc' = "select"
    /\ UNCHANGED <<ctxVars, ret, poolVars, fcVars, wkVars, edVars, auxVars, tmVars, termVars, nwVars, bqVars, dur,
                   tokens, lost, granted, hnVars>>

\* select { case <-ctx.Done(): return commits, rollbacks, nil; default: }
SlSelect ==
    /\ driver = "startLoop"
    /\ runPc = "select"
    /\ IF ctxDone
       THEN runPc' = "returned" /\ ret' = "nil"
       ELSE runPc' = "loop" /\ ret' = ret
    /\ UNCHANGED <<ctxVars, poolVars, fcVars, wkVars, edVars, auxVars, extVars, hnVars>>

\* ------------------------------------------ NewWorkload and the naptime
\* Config.validate of package k
validate(k, j, mn, mx) ==
    IF j < MinJobs(k) THEN "err"
    ELSE IF k \in RangeDrivers /\ (mn = Zero \/ mx = Zero) THEN "err"
    ELSE IF k \in RangeDrivers /\ Gt(mn, mx) THEN "err"
    ELSE "nil"

\* NewWorkload(config, logger): err := config.validate(); return nil, err
\* or return &workload{...}, nil
NewWorkload ==
    /\ driver = "NewWorkload"
    /\ runPc = "init"
    /\ runPc' = IF validate(kind, jobs, cfgMin, cfgMax) = "nil" THEN "created" ELSE "rejected"
    /\ UNCHANGED <<ctxVars, ret, poolVars, fcVars, wkVars, edVars, auxVars, extVars, hnVars>>

\* rand.Int63n(n) for n > 0 returns any value of [0, n): its least, its
\* middle and its greatest value are taken
Int63n(n) == {Zero, Div2(n), Sub(n, One)}

\* startLoop of idlexacts and waitxacts: maxTime++, then for one unit
\* naptime := time.Duration(rand.Int63n(maxTime.Nanoseconds()-minTime.Nanoseconds())
\*                          + minTime.Nanoseconds()); Int63n panics for n <= 0
DrawNaptime ==
    /\ driver = "NewWorkload"
    /\ runPc = "created"
    /\ kind \in RangeDrivers
    /\ LET n == Sub(Add(cfgMax, One), cfgMin)
       IN  IF Gt(n, Zero)
           THEN /\ \E k \in Int63n(n) : naptime' = Add(k, cfgMin)
                /\ runPc' = "drawn"
           ELSE /\ naptime' = naptime
                /\ runPc' = "panicked"
    /\ UNCHANGED <<ctxVars, ret, poolVars, fcVars, wkVars, edVars, auxVars, tmVars, termVars,
                   slVars, bqVars, kind, cfgMin, cfgMax, hnVars>>

\* ------------------------------------------------- terminate buildQuery
\* fmt.Sprintf("AND <column> ~ '%s' ", v): the value is put between the
\* quotes as it is; nothing when the filter is empty
Filter(column, v) ==
    IF v = <<>> THEN <<>> ELSE <<"AND", column, "~", "'">> \o v \o <<"'">>

\* signalFuncname
Funcname(c) ==
    IF c.SoftMode THEN "pg_cancel_backend(pid)" ELSE "pg_terminate_backend(pid)"

\* buildQuery(c): the words of the statement it returns
buildQuery(c) ==
    <<"SELECT", Funcname(c), "FROM", "pg_stat_activity", "WHERE", "pid", "<>",
      "pg_backend_pid()">>
    \o (IF c.IgnoreSystemBackends
        THEN <<"AND", "backend_type", "=", "'", "client backend", "'">> ELSE <<>>)
    \o Filter("client_addr::text", c.ClientAddr)
    \o Filter("usename", c.User)
    \o Filter("datname", c.Database)
    \o Filter("application_name", c.ApplicationName)
    \o <<"ORDER BY", "random()", "LIMIT", "1">>

\* q := buildQuery(c), in signalProcess
BuildQuery ==
    /\ driver = "buildQuery"
    /\ runPc = "init"
    /\ query' = buildQuery(termCfg)
    /\ runPc' = "built"
    /\ UNCHANGED <<ctxVars, ret, poolVars, fcVars, wkVars, edVars, auxVars, tmVars, termVars,
                   slVars, nwVars, termCfg, hnVars>>

\* ------------------------------------------ idlexacts startSingleIdleXact
\* One call of startSingleIdleXact(ctx, pool, table, naptime); runPc is its
\* position, time is counted in ticks.
\* One tick passes while CREATE TEMP TABLE runs or while the select waits;
\* a select with a readable case goes on at once.
SxTick ==
    /\ driver = "startSingleIdleXact"
    /\ \/ runPc = "temp"
       \/ runPc = "select" /\ now < sx.timer /\ ~ctxDone
    /\ now < MaxNow
    /\ now' = now + 1
    /\ UNCHANGED <<ctxVars, runVars, poolVars, fcVars, wkVars, edVars, auxVars, termVars,
                   slVars, nwVars, bqVars, hnVars>>

\* The deferred tx.Rollback(ctx): ROLLBACK is executed, or it cannot be sent
\* (c = "err"), the connection is given up and the server aborts the
\* transaction
Rollback(c) == IF c = "nil" THEN "rolledback" ELSE "aborted"

\* tx, err := pool.Begin(ctx): return err, or defer tx.Rollback(ctx) and go
\* on to createTempTable (table != "") or to timer := time.NewTimer(naptime)
SxBegin(e) ==
    /\ driver = "startSingleIdleXact"
    /\ runPc = "init"
    /\ e \in CtxCall
    /\ IF e = "err"
       THEN runPc' = "returned" /\ ret' = "err" /\ sx' = sx
       ELSE /\ runPc' = IF sx.table # "" THEN "temp" ELSE "select"
            /\ ret' = ret
            /\ sx' = [sx EXCEPT !.xact = "open", !.begun = now,
                             !.timer = IF sx.table # "" THEN 0 ELSE now + sx.naptime]
    /\ UNCHANGED <<ctxVars, poolVars, fcVars, wkVars, edVars, auxVars, extVars, eqVars, rcVars,
                   rdVars, mnVars, poolOpen, rb>>

\* err = createTempTable(tx, table), executed with context.Background():
\* return err (the deferred Rollback runs), or timer := time.NewTimer(naptime)
SxCreateTempTable(e, c) ==
    /\ driver = "startSingleIdleXact"
    /\ runPc = "temp"
    /\ e \in BgCall
    /\ c \in CtxCall
    /\ IF e = "err"
       THEN runPc' = "returned" /\ ret' = "err" /\ sx' = [sx EXCEPT !.xact = Rollback(c)]
       ELSE runPc' = "select" /\ ret' = ret /\ sx' = [sx EXCEPT !.timer = now + sx.naptime]
    /\ UNCHANGED <<ctxVars, poolVars, fcVars, wkVars, edVars, auxVars, extVars, eqVars, rcVars,
                   rdVars, mnVars, poolOpen, rb>>

\* select { case <-ctx.Done(): return nil; case <-timer.C: return nil }, then
\* the deferred Rollback
SxSelect(c) ==
    /\ driver = "startSingleIdleXact"
    /\ runPc = "select"
    /\ ctxDone \/ now >= sx.timer
    /\ c \in CtxCall
    /\ runPc' = "returned"
    /\ ret' = "nil"
    /\ sx' = [sx EXCEPT !.xact = Rollback(c)]
    /\ UNCHANGED <<ctxVars, poolVars, fcVars, wkVars, edVars, auxVars, extVars, eqVars, rcVars,
                   rdVars, mnVars, poolOpen, rb>>

\* ------------------------------------------------- tempfiles execQuery
\* The calls of execQuery(ctx, pool) made by the goroutines of one startLoop
\* on the pool of its worker.  db.NewPostgresDB has opened the connection 1;
\* a session starts with the server's work_mem.
\* if limiter.Allow() { wg.Add(1); go func() { err := execQuery(ctx, pool) ... }
EqLaunch(q) ==
    /\ driver = "execQuery"
    /\ q \in 1..MaxQueries
    /\ spill[q].pc = "none"
    /\ \A p \in 1..(q - 1) : spill[p].pc # "none"
    /\ spill' = [spill EXCEPT ![q].pc = "set"]
    /\ UNCHANGED <<ctxVars, runVars, poolVars, fcVars, wkVars, edVars, auxVars, extVars,
                   sx, sess, rcVars, rdVars, mnVars, poolOpen, rb>>

\* Connections of the pool that are open and not in use
Idle == {c \in 1..MaxSess : sess[c].open /\ sess[c].by = 0}

\* The connections pool.Exec can get for its statement: an idle one, or a
\* new one when none is idle and the pool is not at its size; none when
\* every connection is in use (the call waits)
Acquirable ==
    IF Idle # {} THEN Idle
    ELSE {c \in 1..MaxSess : ~sess[c].open /\ \A b \in 1..(c - 1) : sess[b].open}

\* db.pool.Exec(ctx, sql) of PostgresDB.Exec takes a connection for the one
\* statement: SET work_mem or the SELECT
EqAcquire(q, c) ==
    /\ driver = "execQuery"
    /\ spill[q].pc \in {"set", "sel"}
    /\ ~ctxDone
    /\ c \in Acquirable
    /\ sess' = [sess EXCEPT ![c].open = TRUE, ![c].by = q]
    /\ spill' = [spill EXCEPT ![q].pc = IF @ = "set" THEN "setting" ELSE "selecting",
                              ![q].conn = c]
    /\ UNCHANGED <<ctxVars, runVars, poolVars, fcVars, wkVars, edVars, auxVars, extVars, sx,
                   rcVars, rdVars, mnVars, poolOpen, rb>>

\* The statement is executed on the connection taken and the connection goes
\* back to the pool.  SET work_mem TO '64kB' lowers the limit of that
\* session; the SELECT runs under the limit of the session it is on.
EqExec(q) ==
    /\ driver = "execQuery"
    /\ spill[q].pc \in {"setting", "selecting"}
    /\ LET c == spill[q].conn
       IN  IF spill[q].pc = "setting"
           THEN /\ sess' = [sess EXCEPT ![c].lowered = TRUE, ![c].by = 0]
                /\ spill' = [spill EXCEPT ![q].pc = "sel", ![q].conn = 0, ![q].setOn = c]
           ELSE /\ sess' = [sess EXCEPT ![c].by = 0]
                /\ spill' = [spill EXCEPT ![q] = [pc |-> "done", conn |-> 0, setOn |-> @.setOn,
                                                  selOn |-> c, low |-> sess[c].lowered,
                                                  err |-> "nil"]]
    /\ UNCHANGED <<ctxVars, runVars, poolVars, fcVars, wkVars, edVars, auxVars, extVars, sx,
                   rcVars, rdVars, mnVars, poolOpen, rb>>

\* pool.Exec returns an error (the context is done, the statement fails):
\* if err != nil { return err }
EqFail(q) ==
    /\ driver = "execQuery"
    /\ spill[q].pc \in {"set", "sel", "setting", "selecting"}
    /\ sess' = [c \in 1..MaxSess |-> IF sess[c].by = q THEN [sess[c] EXCEPT !.by = 0] ELSE sess[c]]
    /\ spill' = [spill EXCEPT ![q].pc = "done", ![q].conn = 0, ![q].err = "err"]
    /\ UNCHANGED <<ctxVars, runVars, poolVars, fcVars, wkVars, edVars, auxVars, extVars, sx,
                   rcVars, rdVars, mnVars, poolOpen, rb>>

\* ------------------------------- the row identifiers of executeDeadlock
\* The attempts of executeDeadlock made by the workers of one Run, one after
\* the other or at the same time, as far as they use the generator shared by
\* the process; now is the reading of the clock.
\* The clock goes on: time.Now().UnixNano() returns a greater value
RdTick ==
    /\ driver = "rand"
    /\ now < MaxSeeds
    /\ now' = now + 1
    /\ UNCHANGED <<ctxVars, runVars, poolVars, fcVars, wkVars, edVars, auxVars, termVars,
                   slVars, nwVars, bqVars, hnVars>>

\* rand.Seed(time.Now().UnixNano()): the shared generator restarts from the
\* state the seed determines
RdSeed(a) ==
    /\ driver = "rand"
    /\ draws[a].pc = "seed"
    /\ rng' = [seed |-> now, pos |-> 0]
    /\ draws' = [draws EXCEPT ![a].pc = "id1"]
    /\ UNCHANGED <<ctxVars, runVars, poolVars, fcVars, wkVars, edVars, auxVars, extVars,
                   sx, eqVars, rcVars, mnVars, poolOpen, rb>>

\* rand.Int() of a generator seeded with s that has given p values since:
\* a value the seed and the position determine, different for every other
\* seed and position
RandInt(s, p) == s * (2 * MaxCalls) + p

\* id1, id2 := rand.Int(), rand.Int(): the two calls, one at a time
RdInt(a) ==
    /\ driver = "rand"
    /\ draws[a].pc \in {"id1", "id2"}
    /\ rng' = [rng EXCEPT !.pos = @ + 1]
    /\ draws' = [draws EXCEPT ![a] =
          IF @.pc = "id1" THEN [@ EXCEPT !.pc = "id2", !.id1 = RandInt(rng.seed, rng.pos)]
          ELSE [@ EXCEPT !.pc = "done", !.id2 = RandInt(rng.seed, rng.pos)]]
    /\ UNCHANGED <<ctxVars, runVars, poolVars, fcVars, wkVars, edVars, auxVars, extVars,
                   sx, eqVars, rcVars, mnVars, poolOpen, rb>>

\* ------------------------------------------------------------------ main
\* main from ctx, cancel := context.WithCancel(...) on; runPc is its position.
\* The two goroutines are started; main goes to rc := <-doExit
MnStart ==
    /\ driver = "main"
    /\ runPc = "init"
    /\ runPc' = "recv"
    /\ sigG' = "listen"
    /\ appG' = "run"
    /\ UNCHANGED <<ctxVars, ret, poolVars, fcVars, wkVars, edVars, auxVars, extVars,
                   sx, eqVars, rcVars, rdVars, doExit, rc, poolOpen, rb>>

\* SIGINT or SIGTERM is delivered: listenSignals returns its error
MnSignal ==
    /\ driver = "main"
    /\ runPc # "returned"
    /\ sigG = "listen"
    /\ sigG' = "send"
    /\ UNCHANGED <<ctxVars, runVars, poolVars, fcVars, wkVars, edVars, auxVars, extVars,
                   sx, eqVars, rcVars, rdVars, appG, doExit, rc, poolOpen, rb>>

\* runApplication returns nil: its own timeout has passed or ctx is done
MnAppReturns ==
    /\ driver = "main"
    /\ runPc # "returned"
    /\ appG = "run"
    /\ appG' = "send"
    /\ UNCHANGED <<ctxVars, runVars, poolVars, fcVars, wkVars, edVars, auxVars, extVars,
                   sx, eqVars, rcVars, rdVars, sigG, doExit, rc, poolOpen, rb>>

\* doExit <- v can proceed while the channel is not full
CanSendExit == Len(doExit) < doExitCap

\* doExit <- listenSignals() or doExit <- runApplication(ctx, config, logger)
MnSend(g) ==
    /\ driver = "main"
    /\ runPc # "returned"
    /\ g \in {"sig", "app"}
    /\ (IF g = "sig" THEN sigG ELSE appG) = "send"
    /\ CanSendExit
    /\ doExit' = Append(doExit, IF g = "sig" THEN "signal" ELSE "nil")
    /\ sigG' = IF g = "sig" THEN "cancel" ELSE sigG
    /\ appG' = IF g = "app" THEN "cancel" ELSE appG
    /\ UNCHANGED <<ctxVars, runVars, poolVars, fcVars, wkVars, edVars, auxVars, extVars,
                   sx, eqVars, rcVars, rdVars, rc, poolOpen, rb>>

\* cancel(), and in the application goroutine wg.Done(): the goroutine ends
MnCancel(g) ==
    /\ driver = "main"
    /\ runPc # "returned"
    /\ g \in {"sig", "app"}
    /\ (IF g = "sig" THEN sigG ELSE appG) = "cancel"
    /\ ctxDone' = TRUE
    /\ sigG' = IF g = "sig" THEN "end" ELSE sigG
    /\ appG' = IF g = "app" THEN "end" ELSE appG
    /\ UNCHANGED <<driver, jobs, cfgFixture, runVars, poolVars, fcVars, wkVars, edVars,
                   auxVars, extVars, sx, eqVars, rcVars, rdVars, doExit, rc, poolOpen,
                   rb>>

\* rc := <-doExit
MnRecv ==
    /\ driver = "main"
    /\ runPc = "recv"
    /\ doExit # <<>>
    /\ rc' = Head(doExit)
    /\ doExit' = Tail(doExit)
    /\ runPc' = "wait"
    /\ UNCHANGED <<ctxVars, ret, poolVars, fcVars, wkVars, edVars, auxVars, extVars,
                   sx, eqVars, rcVars, rdVars, sigG, appG, poolOpen, rb>>

\* wg.Wait() returns when the application goroutine has called wg.Done();
\* the last message is printed and main returns: the process ends
MnExit_NoWait ==
    /\ driver = "main"
    /\ runPc = "wait"
    /\ runPc' = "returned"
    /\ ret' = rc
    /\ UNCHANGED <<ctxVars, poolVars, fcVars, wkVars, edVars, auxVars, extVars,
                   sx, eqVars, rcVars, rdVars, mnVars, poolOpen, rb>>

MnExit ==
    /\ driver = "main"
    /\ runPc = "wait"
    /\ appG = "end"
    /\ runPc' = "returned"
    /\ ret' = rc
    /\ UNCHANGED <<ctxVars, poolVars, fcVars, wkVars, edVars, auxVars, extVars,
                   sx, eqVars, rcVars, rdVars, mnVars, poolOpen, rb>>

\* ------------------------------------------- the throttle of rollbacks
\* rollbacks NewWorkload(config) followed by the startLoop of one worker of
\* Run, which sleeps between two queries for the working time divided by a
\* rate drawn between the configured rates.
\* Config.validate of rollbacks
Config_validate(c) ==
    IF c.Jobs < 1 THEN "err"
    ELSE IF c.MinRate = 0 /\ c.MaxRate = 0 THEN "err"
    ELSE IF c.MinRate > c.MaxRate THEN "err"
    ELSE "nil"

\* NewWorkload, and Run up to the call of startLoop
RbNewWorkload ==
    /\ driver = "throttle"
    /\ runPc = "init"
    /\ IF Config_validate(rb) = "nil"
       THEN runPc' = "createTempTable" /\ ret' = ret
       ELSE runPc' = "rejected" /\ ret' = "err"
    /\ UNCHANGED <<ctxVars, poolVars, fcVars, wkVars, edVars, auxVars, extVars, sx, eqVars,
                   rcVars, rdVars, mnVars, poolOpen, rb>>

\* table, err := createTempTable(ctx, conn)
RbCreateTempTable(e) ==
    /\ driver = "throttle"
    /\ runPc = "createTempTable"
    /\ e \in BgCall
    /\ IF e = "nil" THEN runPc' = "loop" /\ ret' = ret
       ELSE runPc' = "returned" /\ ret' = "err"
    /\ UNCHANGED <<ctxVars, poolVars, fcVars, wkVars, edVars, auxVars, extVars, sx, eqVars,
                   rcVars, rdVars, mnVars, poolOpen, rb>>

\* The quotient of Go's integer division, which rounds towards zero
Quo(a, b) ==
    IF (a >= 0) = (b > 0) THEN (IF a >= 0 THEN a ELSE -a) \div (IF b > 0 THEN b ELSE -b)
    ELSE -((IF a >= 0 THEN a ELSE -a) \div (IF b > 0 THEN b ELSE -b))

\* The rates one iteration may draw, rand.Intn(n) returning 0 .. n-1;
\* maxRate is Config.MaxRate + 1
Rates(minRate, maxRate) ==
    IF minRate # maxRate THEN {r + minRate : r \in 0..(maxRate - minRate - 1)}
    ELSE {minRate}

\* One iteration of the loop up to its select: the query, then the interval;
\* the division by a rate of zero panics
RbIterate(r) ==
    /\ driver = "throttle"
    /\ runPc = "loop"
    /\ rb.iters < MaxIters
    /\ r \in Rates(rb.MinRate, rb.MaxRate + 1)
    /\ IF r = 0
       THEN /\ runPc' = "panic"
            /\ rb' = [rb EXCEPT !.iters = @ + 1, !.rate = r]
       ELSE /\ runPc' = "select"
            /\ rb' = [rb EXCEPT !.iters = @ + 1, !.rate = r, !.interval = Quo(WorkingTime, r)]
    /\ UNCHANGED <<ctxVars, ret, poolVars, fcVars, wkVars, edVars, auxVars, extVars, sx, eqVars,
                   rcVars, rdVars, mnVars, poolOpen>>

\* select: the timer fires and the loop goes on, or the context is done
RbSelect(c) ==
    /\ driver = "throttle"
    /\ runPc = "select"
    /\ c \in {"timer", "done"}
    /\ c = "done" => ctxDone
    /\ IF c = "timer" THEN runPc' = "loop" /\ ret' = ret
       ELSE runPc' = "returned" /\ ret' = "nil"
    /\ UNCHANGED <<ctxVars, poolVars, fcVars, wkVars, edVars, auxVars, extVars, sx, eqVars,
                   rcVars, rdVars, mnVars, poolOpen, rb>>

\* ----------------------------------------------------------------- spec
Next ==
    \/ Cancel
    \/ \E e \in Errs : RunConnect(e)
    \/ \E e \in Errs, rws \in Selections : RunTargets(e, rws)
    \/ \E o \in {"nil", "nocommit", "err"} : RunPrepare(o)
    \/ \E tb \in UserTables \cup {FixtureTable, "", "none"} : RunAdmit(tb)
    \/ \E c \in Errs : RunObserveCancel(c)
    \/ \E i \in 1..MaxUnits : UnitLock(i)
    \/ \E i \in 1..MaxUnits : UnitGranted(i)
    \/ \E i \in 1..MaxUnits, e \in Errs : UnitReturn(i, e)
    \/ \E i \in 1..MaxUnits : UnitRelease(i)
    \/ FcStart
    \/ \E e \in Errs : FcAttempt(e)
    \/ FcObserveCancel
    \/ TermTick
    \/ \E e \in Errs : TermSignal(e)
    \/ TermTimer
    \/ TermObserveCancel
    \/ \E e \in Errs : RunCountBefore(e)
    \/ RunSpawn
    \/ \E i \in 1..MaxJobs, o \in {"nil", "err", "tblerr"} : WorkerWork(i, o)
    \/ \E i \in 1..MaxJobs : WorkerTimer(i)
    \/ \E i \in 1..MaxJobs : WorkerStmt(i)
    \/ \E i \in 1..MaxJobs : WorkerQuery(i)
    \/ \E i \in 1..MaxJobs : QueryDone(i)
    \/ \E i \in 1..MaxJobs : WorkerObserveCancel(i)
    \/ \E i \in 1..MaxJobs : WorkerDrained(i)
    \/ \E e \in Errs : RunWaitDone(e)
    \/ \E e \in Errs : EdConnect1(e)
    \/ \E e \in Errs : EdConnect2(e)
    \/ \E e \in Errs, a \in 1..MaxId, b \in 1..MaxId : EdInsert(e, a, b)
    \/ \E t \in Txs, e \in Errs : TxBegin(t, e)
    \/ \E t \in Txs : TxUpdate(t)
    \/ \E t \in Txs : TxGranted(t)
    \/ \E v \in Txs : TxDeadlock(v)
    \/ \E t \in Txs : TxExecErr(t)
    \/ \E t \in Txs : TxSleep(t)
    \/ \E t \in Txs, e \in Errs : TxCommit(t, e)
    \/ EdReturn
    \/ \E e \in Errs : TwtCall(e)
    \/ \E e \in Errs : ClConnect(e)
    \/ \E e \in Errs : ClDrop(e)
    \/ ClAgain
    \/ \E k \in 1..Len(AppWorkloads) : AppLaunch(k)
    \/ AppWait
    \/ \E w \in Range(AppWorkloads), e \in Errs : ChildNew(w, e)
    \/ \E w \in Range(AppWorkloads), e \in Errs : ChildRun(w, e)
    \/ AppReturn
    \/ SlTick
    \/ \E e \in Errs : SlCreateTempTable(e)
    \/ SlAllow
    \/ \E idx \in 0..(total - 1) : SlExec(idx)
    \/ SlSelect
    \/ NewWorkload
    \/ DrawNaptime
    \/ BuildQuery

    \/ SxTick
    \/ \E e \in Errs : SxBegin(e)
    \/ \E e \in Errs, c \in Errs : SxCreateTempTable(e, c)
    \/ \E c \in Errs : SxSelect(c)
    \/ \E q \in 1..MaxQueries : EqLaunch(q)
    \/ \E q \in 1..MaxQueries, c \in 1..MaxSess : EqAcquire(q, c)
    \/ \E q \in 1..MaxQueries : EqExec(q)
    \/ \E q \in 1..MaxQueries : EqFail(q)
    \/ RdTick
    \/ \E a \in 1..MaxCalls : RdSeed(a)
    \/ \E a \in 1..MaxCalls : RdInt(a)
    \/ \E w \in Range(AppWorkloads) : ChildLog(w)
    \/ MnStart
    \/ MnSignal
    \/ MnAppReturns
    \/ \E g \in {"sig", "app"} : MnSend(g)
    \/ \E g \in {"sig", "app"} : MnCancel(g)
    \/ MnRecv
    \/ MnExit
    \/ RbNewWorkload
    \/ \E e \in BgCall : RbCreateTempTable(e)
    \/ \E r \in -1..(MaxRate + 1) : RbIterate(r)
    \/ \E c \in {"timer", "done"} : RbSelect(c)
Spec == Init /\ [][Next]_vars

\* ------------------------------------------------ the pool, scheduled
\* Run of deadlocks, whose worker logs its own err, with the scheduling of
\* the Go runtime: a goroutine that can take a step takes it.  Run's select proceeds when
\* the send to guard is possible, and a worker whose work has returned goes
\* on to its receive from guard, which never blocks because the worker's
\* own value is in the channel.  Nothing makes a unit's work return.
PoolInit == Init /\ driver = "deadlocks" /\ warnArg = "own"

PoolNext ==
    \/ Cancel
    \/ \E e \in Errs : RunConnect(e)
    \/ \E o \in {"nil", "nocommit", "err"} : RunPrepare(o)
    \/ RunAdmit("none")
    \/ \E c \in Errs : RunObserveCancel(c)
    \/ \E i \in 1..MaxUnits, e \in Errs : UnitReturn(i, e)
    \/ \E i \in 1..MaxUnits : UnitRelease(i)

Scheduling ==
    /\ WF_vars(RunAdmit("none"))
    /\ WF_vars(\E i \in 1..MaxUnits : UnitRelease(i))

FairSpec == PoolInit /\ [][PoolNext]_vars /\ Scheduling

\* =============================================================== claims

\* C1: in the deadlocks, idlexacts and waitxacts drivers the number of units
\* started and not yet finished never exceeds Jobs.
C1_InFlightWithinJobs ==
    driver \in PoolDrivers => Cardinality(InFlight) <= jobs

\* C1 witness: the pool is full with Jobs = 2 after an earlier unit finished.
C1_Witness ==
    /\ driver \in PoolDrivers
    /\ jobs >= 2
    /\ Cardinality(InFlight) = jobs
    /\ \E i \in 1..MaxUnits : units[i].st = "finished"

\* C2 (as claimed): once the context is done, the admission loop starts no
\* new unit, also when a free slot and the cancellation are both available.
C2_NoAdmissionAfterCancel ==
    [][(driver \in PoolDrivers /\ ctxDone) => Started' = Started]_vars

\* C3 (as claimed): when Run of a pool driver has returned, none of its
\* units is still in flight.
C3_ReturnAfterUnitsFinished ==
    (driver \in PoolDrivers /\ runPc = "returned") => InFlight = {}

\* Positions of Run that follow a successful setup
AfterSetup == {"loop", "signal", "select", "wait"}

\* C4 (as claimed): when the context is done, a Run whose setup had
\* succeeded, and none of whose workers failed, returns nil.
C4_RunReturnsNilAfterSetup ==
    [][(/\ driver \in Workloads
        /\ ctxDone
        /\ runPc \in AfterSetup
        /\ \A i \in Jobs : workers[i].err # "err"
        /\ runPc' = "returned")
          => ret' = "nil"]_vars

C6_FailureBackoffMonotone ==
    (driver = "failconns" /\ lastAttempt = "fail")
        => /\ Ge(interval, defaultConnInterval)
           /\ Ge(interval, prevInterval)

\* C7 (as claimed): a success above the floor strictly decreases the
\* interval, a success at the floor keeps it, and the interval is never
\* below the floor.
C7_IntervalAtLeastFloor ==
    driver = "failconns"
        => /\ Ge(interval, defaultConnInterval)
           /\ (lastAttempt = "ok" /\ prevInterval # defaultConnInterval)
                => Gt(prevInterval, interval)
           /\ (lastAttempt = "ok" /\ prevInterval = defaultConnInterval)
                => interval = defaultConnInterval

\* C8: failconns closes nothing before it observes the cancellation, and when
\* Run has returned every opened connection has been closed exactly once.
C8_ConnsClosedOnceAtShutdown ==
    driver = "failconns"
        => /\ runPc # "returned" => \A c \in 1..MaxConns : closed[c] = 0
           /\ runPc = "returned"
                => \A c \in 1..MaxConns : closed[c] = IF c \in opened THEN 1 ELSE 0

\* C8 witness: Run has returned after opening at least two connections.
C8_Witness ==
    /\ driver = "failconns"
    /\ runPc = "returned"
    /\ Cardinality(opened) >= 2
    /\ \A c \in opened : closed[c] = 1

\* C9 (as claimed): an attempt whose transactions met no other error ends
\* with exactly one transaction committed and the other one the deadlock
\* victim.
C9_ExactlyOneVictim ==
    (/\ driver = "executeDeadlock"
     /\ runPc = "returned"
     /\ \A t \in Txs : tx[t].res \in {"commit", "deadlock"})
        => \E t \in Txs : tx[t].res = "commit" /\ tx[Other(t)].res = "deadlock"

\* C10: when executeDeadlock returns after starting its two transactions,
\* both have resolved and the value returned is nil.
C10_ReturnsAfterBothResolved ==
    (driver = "executeDeadlock" /\ runPc = "returned" /\ tx[1].pc # "none")
        => /\ \A t \in Txs : tx[t].pc = "done"
                              /\ tx[t].res \in {"commit", "deadlock", "error"}
           /\ ret = "nil"

\* C10 witness: executeDeadlock has returned nil, the second transaction
\* was the deadlock victim and the first one committed.
C10_Witness ==
    /\ driver = "executeDeadlock"
    /\ runPc = "returned"
    /\ ret = "nil"
    /\ tx[1].res = "commit"
    /\ tx[2].res = "deadlock"

\* C11 (as claimed): in deadlocks and waitxacts, when Run has returned after
\* prepare was called, cleanup has been called, whatever prepare returned,
\* and on the paths where prepare succeeded Run has returned nil whatever
\* cleanup returned.
C11_CleanupOnEveryExit ==
    (driver \in FixtureDrivers /\ runPc = "returned" /\ prepared # "none")
        => /\ cleaned.res # "none"
           /\ prepared # "err" => ret = "nil"

\* C12 (as claimed): after prepare has returned nil the database holds the
\* fixture as one first prepare on a clean database leaves it (the table,
\* with the one payload row in waitxacts), also when the table was already
\* there from an earlier prepare.
C12_PrepareIdempotent ==
    (driver \in FixtureDrivers /\ prepared = "nil" /\ cleaned.res = "none")
        => /\ fixture = "present"
           /\ rows = IF driver = "waitxacts" THEN 1 ELSE 0

\* C13: a cleanup whose DROP statement reached the server and found no
\* fixture table returns nil, and a call of noisia.Cleanup all of whose
\* statements reached the server returns nil and leaves no fixture table,
\* whether the tables were there or not.
C13_CleanupOfAbsentFixture ==
    /\ (driver \in FixtureDrivers /\ cleaned.found = "absent") => cleaned.res = "nil"
    /\ (driver = "Cleanup" /\ runPc = "returned" /\ ~unreached)
          => ret = "nil" /\ dbTables = {}

\* C13 witness: noisia.Cleanup has returned nil twice: its second call found
\* every table already dropped by the first.
C13_Witness ==
    /\ driver = "Cleanup"
    /\ runPc = "returned"
    /\ rets = <<"nil", "nil">>

\* C14 (as claimed): Run returns an error only from its setup: never from a
\* position that follows a successful setup when none of its workers has
\* failed, and never in a pool driver that has admitted a unit.
C14_ErrorOnlyFromSetup ==
    [][(driver \in Workloads)
         => /\ (/\ runPc # "returned"
                /\ \A i \in Jobs : workers[i].err # "err"
                /\ runPc' = "returned"
                /\ ret' = "err")
                 => runPc \notin AfterSetup
            /\ (driver \in PoolDrivers /\ Started # {} /\ runPc' = "returned")
                 => ret' = "nil"]_vars

\* C15 (as claimed): when every worker of rollbacks, forkconns or tempfiles
\* failed in its first database work (db.Connect, db.NewPostgresDB; in
\* forkconns also the first Exec or Close) while the context was not
\* cancelled, Run returns an error.
C15_ConnectFailureReported ==
    (/\ driver \in WorkerDrivers
     /\ runPc = "returned"
     /\ ~ctxDone
     /\ \A i \in Jobs : workers[i].err = "err" /\ workers[i].iters = 0)
        => ret = "err"

C17_WaitsObserveCancel ==
    [][ctxDone
         => /\ driver = "executeDeadlock"
                 => \A t \in Txs :
                       (tx[t].pc \notin {"none", "done"} /\ tx'[t].pc # tx[t].pc)
                          => tx'[t].pc = "done"
            /\ driver \in {"rollbacks", "tempfiles"}
                 => \A i \in Jobs :
                       (/\ workers[i].pc = "select"
                        /\ \/ workers'[i].iters > workers[i].iters
                           \/ workers'[i].queries > workers[i].queries)
                          => workers'[i].pc # "select"]_vars

\* C18 (as claimed): when executeDeadlock has returned, no connection it
\* opened is still open and no transaction it began is still open.
C18_ConnsClosedWhenUnitEnds ==
    (driver = "executeDeadlock" /\ runPc = "returned")
        => /\ edConns = 0
           /\ \A t \in Txs : tx[t].pc \in {"none", "done"}
           /\ \A r \in 1..MaxId : lock[r] = 0

\* C19: when its query is answered, TopWriteTables(db, n) returns a nil
\* error and a non-nil list of at most n distinct user tables in which no
\* table has a greater sum of updated and deleted tuples than a table
\* before it; the list is empty when no table qualifies.
C19_TopWriteTablesResult ==
    (driver = "TopWriteTables" /\ runPc = "returned" /\ answered = "nil")
        => /\ got.err = "nil"
           /\ ret = "nil"
           /\ ~got.isNil
           /\ Len(got.tables) <= limit
           /\ Range(got.tables) \subseteq Qualifying(stats)
           /\ \A i, j \in 1..Len(got.tables) :
                 i < j => /\ got.tables[i] # got.tables[j]
                          /\ stats[got.tables[i]] >= stats[got.tables[j]]
           /\ Qualifying(stats) = {} => got.tables = <<>>

\* C19 witness: two tables with different counts are returned, the greater
\* count first.
C19_Witness ==
    /\ driver = "TopWriteTables"
    /\ runPc = "returned"
    /\ Len(got.tables) = 2
    /\ stats[got.tables[1]] > stats[got.tables[2]]

\* C20 (as claimed): in waitxacts, target selection that is answered leads
\* to prepare exactly when fixture mode is requested or the list is empty;
\* in the loop after prepare the fixture table exists and every unit
\* targets it; in the loop without prepare every unit targets a selected
\* user table and the fixture table is neither created nor dropped.
C20_FixtureOrSelected ==
    [][(driver = "waitxacts")
         => /\ (runPc = "targets" /\ runPc' \notin {"targets", "returned"})
                 => (runPc' = "prepare") = (cfgFixture \/ tables' = <<>>)
            /\ (runPc' = "loop" /\ prepared' # "none")
                 => /\ fixture' = "present"
                    /\ tables' = <<FixtureTable>>
                    /\ \A i \in 1..MaxUnits :
                          units'[i].st = "running" => units'[i].table = FixtureTable
            /\ (runPc' = "loop" /\ prepared' = "none")
                 => /\ Range(tables') \subseteq UserTables
                    /\ \A i \in 1..MaxUnits :
                          units'[i].st = "running" => units'[i].table \in Range(tables')
            /\ prepared' = "none" => fixture' = fixture /\ rows' = rows]_vars

C22_NaptimeWithinRange ==
    /\ runPc # "panicked"
    /\ (driver = "NewWorkload" /\ runPc = "drawn")
         => Ge(naptime, cfgMin) /\ Ge(cfgMax, naptime)

\* C25 (as claimed): NewWorkload returns a workload exactly when the
\* configuration has Jobs >= 1 (Jobs >= 2 where two cooperating participants
\* are required: deadlocks, waitxacts), range bounds that are not zero and
\* minimum <= maximum, and returns an error otherwise.
C25_WorkloadIffValidConfig ==
    (driver = "NewWorkload" /\ runPc # "init")
        => (runPc # "rejected"
              <=> /\ jobs >= (IF kind \in {"deadlocks", "waitxacts"} THEN 2 ELSE 1)
                  /\ kind \in RangeDrivers
                       => /\ cfgMin # Zero
                          /\ cfgMax # Zero
                          /\ ~Gt(cfgMin, cfgMax))

RECURSIVE AndColumns(_, _, _)
AndColumns(q, i, inStr) ==
    IF i > Len(q) THEN <<>>
    ELSE IF q[i] = "'" THEN AndColumns(q, i + 1, ~inStr)
    ELSE IF q[i] = "AND" /\ ~inStr /\ i < Len(q)
         THEN <<q[i + 1]>> \o AndColumns(q, i + 2, inStr)
    ELSE AndColumns(q, i + 1, inStr)

\* The columns the conditions of the statement are to have for the config c
WantedColumns(c) ==
    (IF c.IgnoreSystemBackends THEN <<"backend_type">> ELSE <<>>)
    \o (IF c.ClientAddr # <<>> THEN <<"client_addr::text">> ELSE <<>>)
    \o (IF c.User # <<>> THEN <<"usename">> ELSE <<>>)
    \o (IF c.Database # <<>> THEN <<"datname">> ELSE <<>>)
    \o (IF c.ApplicationName # <<>> THEN <<"application_name">> ELSE <<>>)

\* C24 (as claimed): for every terminate configuration the statement of
\* buildQuery calls pg_cancel_backend in soft mode and pg_terminate_backend
\* otherwise, excludes the caller's own backend, has one AND-condition for
\* each filter that is set and none for an empty one, in the order backend
\* type, client address, user, database, application name, and takes one
\* random row.
C24_QueryMatchesConfig ==
    (driver = "buildQuery" /\ runPc = "built")
        => /\ SubSeq(query, 1, 8) =
                <<"SELECT",
                  IF termCfg.SoftMode THEN "pg_cancel_backend(pid)"
                  ELSE "pg_terminate_backend(pid)",
                  "FROM", "pg_stat_activity", "WHERE", "pid", "<>", "pg_backend_pid()">>
           /\ AndColumns(query, 1, FALSE) = WantedColumns(termCfg)
           /\ SubSeq(query, Len(query) - 3, Len(query)) =
                <<"ORDER BY", "random()", "LIMIT", "1">>

\* C26 (as claimed): in fixture mode of waitxacts a unit sends its statement
\* against the fixture table, while another unit is running, only when a
\* unit holds the exclusive lock, so that the statement has to wait.
C26_SecondAfterLockHeld ==
    [][(driver = "waitxacts" /\ cfgFixture)
         => \A i \in 1..MaxUnits :
               (/\ units[i].lk = "none"
                /\ units'[i].lk = "asked"
                /\ \E j \in (1..MaxUnits) \ {i} : units[j].st = "running")
                  => Holders(FixtureTable) # {}]_vars

RECURSIVE QueriesInFlight(_)
\* Query goroutines of the tempfiles workers 1..n started and not yet ended
QueriesInFlight(n) == IF n = 0 THEN 0 ELSE workers[n].queries + QueriesInFlight(n - 1)

\* C27 (as claimed): in the tempfiles driver with Jobs = K the number of
\* spill queries in flight never exceeds K.
C27_QueriesWithinJobs ==
    driver = "tempfiles" => QueriesInFlight(MaxJobs) <= jobs

\* C28: in the guard-channel pools a slot is taken exactly when a unit
\* starts and one slot is given back exactly when a unit ends, failed or
\* not; the occupied slots are the units started and not yet finished, and a
\* finished unit gives nothing back again.
C28_SlotAccounting ==
    [][(driver \in PoolDrivers)
         => /\ guard' = Cardinality(InFlight')
            /\ guard' >= 0
            /\ guard' = guard + 1
                 <=> \E i \in 1..MaxUnits : units[i].st = "none" /\ units'[i].st = "running"
            /\ guard' = guard - 1
                 <=> \E i \in 1..MaxUnits :
                        units[i].st = "returned" /\ units'[i].st = "finished"
            /\ guard' \in {guard - 1, guard, guard + 1}
            /\ \A i \in 1..MaxUnits :
                  /\ units'[i].st = "running" => units[i].st \in {"none", "running"}
                  /\ units[i].st = "finished" => units'[i] = units[i]]_vars

\* C28 witness: one unit has failed and one has succeeded, both have given
\* their slot back, and one more unit holds a slot.
C28_Witness ==
    /\ driver \in PoolDrivers
    /\ \E i, j \in 1..MaxUnits :
          /\ units[i].st = "finished" /\ units[i].err = "err"
          /\ units[j].st = "finished" /\ units[j].err = "nil"
    /\ Cardinality(InFlight) = 1
    /\ guard = 1

\* C29 (as claimed): a driver that created a fixture table drops it only
\* when none of its units that use the table is still running.
C29_DropAfterUnits ==
    [][(driver \in FixtureDrivers /\ prepared # "none"
          /\ fixture = "present" /\ fixture' = "absent")
         => \A i \in 1..MaxUnits : units[i].st # "running"]_vars

\* C30 (as claimed): between a successful prepare and the cleanup the
\* fixture table of waitxacts holds exactly one row, and no step of a unit
\* changes its rows.
C30_FixtureSingleRow ==
    [][(driver = "waitxacts")
         => /\ (prepared' = "nil" /\ cleaned'.res = "none") => rows' = 1
            /\ units' # units => rows' = rows]_vars

\* C31 (as claimed): a transaction begun by startSingleIdleXact is never
\* committed and ends only by rollback, and only once its drawn idle time
\* has elapsed since it began or the context is done, also when creating
\* the temporary table fails.
C31_IdleUntilNaptimeOrCancel ==
    [][(driver = "startSingleIdleXact")
         => /\ sx'.xact \in {"none", "open", "rolledback", "aborted"}
            /\ (sx.xact = "open" /\ sx'.xact # "open")
                 => /\ sx'.xact \in {"rolledback", "aborted"}
                    /\ ctxDone \/ now >= sx.begun + sx.naptime]_vars

\* C32 (as claimed): every spill query of tempfiles runs on the session on
\* which its SET work_mem was executed, a session whose limit is lowered,
\* for every interleaving of the queries running on the worker's pool.
C32_SpillOnLoweredSession ==
    driver = "execQuery"
        => \A q \in 1..MaxQueries :
              spill[q].selOn # 0 => spill[q].selOn = spill[q].setOn /\ spill[q].low

\* C33 (as claimed): no error variable is accessed by two goroutines running
\* concurrently with one of the accesses a write: the variable err of
\* deadlocks Run, written by Run, is read by no worker goroutine after Run
\* wrote it without waiting for that goroutine.
C33_NoSharedErrAccess ==
    driver = "deadlocks" => \A a \in errReads : ~a.written

\* C34: in tempfiles a worker's startLoop returns only when every query
\* goroutine it started has finished, and Run returns only when every one of
\* its Jobs workers has returned: when Run has returned no query is running.
C34_RunAfterQueriesFinished ==
    driver = "tempfiles"
        => /\ \A i \in 1..MaxJobs : workers[i].pc \in {"none", "done"} => workers[i].queries = 0
           /\ runPc = "returned"
                => \A i \in 1..MaxJobs : workers[i].pc \in {"none", "done"}
           /\ (runPc = "returned" /\ workers[1].pc # "none")
                => \A i \in Jobs : workers[i].pc = "done"

\* C34 witness: Run has returned nil with Jobs = 2 after each worker started
\* two queries.
C34_Witness ==
    /\ driver = "tempfiles"
    /\ runPc = "returned"
    /\ ret = "nil"
    /\ jobs = 2
    /\ \A i \in Jobs : workers[i].pc = "done" /\ workers[i].iters = 2 /\ workers[i].queries = 0

\* C35 (as claimed): the two row identifiers of one deadlock attempt differ
\* from each other and from the identifiers of every other attempt, also of
\* the attempts running at the same time in other workers.
C35_IdsDistinct ==
    driver = "rand"
        => \A a, b \in 1..MaxCalls :
              (draws[a].pc = "done" /\ draws[b].pc = "done")
                 => /\ draws[a].id1 # draws[a].id2
                    /\ a # b => {draws[a].id1, draws[a].id2} \cap {draws[b].id1, draws[b].id2} = {}

\* C36 (as claimed): runApplication returns only when every workload
\* goroutine it started has ended; the error of a workload is logged before
\* the workload counts as finished, and no error message is emitted once
\* runApplication has returned.
C36_ErrorsLoggedBeforeReturn ==
    [][(driver = "runApplication")
         => /\ runPc' = "returned" => \A w \in enabled : child'[w] \in {"failed", "done"}
            /\ \A w \in enabled : child'[w] = "failed" => w \in logged'
            /\ runPc = "returned" => logged' = logged]_vars

\* C37: in main, whether a signal or the end of runApplication comes first,
\* main goes on to exit only once runApplication has returned and the shared
\* context has been cancelled, and a goroutine that has its result to send
\* to doExit always finds room in the channel.
C37_ExitAfterApplication ==
    driver = "main"
        => /\ runPc = "returned" => appG = "end" /\ ctxDone
           /\ runPc \in {"wait", "returned"} => rc \in {"signal", "nil"}
           /\ (sigG = "send" \/ appG = "send") => CanSendExit
           /\ Len(doExit) <= doExitCap

\* C37 witness: the signal came first; main has exited with its error after
\* runApplication returned, whose result was sent with nobody to receive it.
C37_Witness ==
    /\ driver = "main"
    /\ runPc = "returned"
    /\ rc = "signal"
    /\ doExit = <<"nil">>
    /\ appG = "end"

\* C38 (as claimed): when Run of a driver has returned, the pool of
\* connections it opened has been closed.
C38_PoolClosedOnReturn ==
    (driver \in PoolDrivers \cup {"terminate"} /\ runPc = "returned") => ~poolOpen

\* C40 (as claimed): rollbacks validation rejects every configuration whose
\* minimum or maximum rate is zero, so for an accepted configuration the
\* interval is computed without a division by zero and the drawn rate lies
\* between MinRate and MaxRate.
C40_NoDivisionByZero ==
    (driver = "throttle" /\ runPc \notin {"init", "rejected"})
        => /\ rb.MinRate # 0 /\ rb.MaxRate # 0
           /\ runPc # "panic"
           /\ rb.iters > 0 => (rb.MinRate <= rb.rate /\ rb.rate <= rb.MaxRate)

\* C39: while the context is not cancelled, a pool in its loop with fewer
\* than Jobs units in flight, or with a unit whose work has returned,
\* eventually admits another unit (which runs from its admission on); the
\* send to guard is impossible only while exactly Jobs units are in flight.
C39_EventuallyAdmits ==
    /\ [](runPc = "loop" /\ ~CanSend => Cardinality(InFlight) = jobs)
    /\ \A n \in 0..(MaxUnits - 1) :
          (/\ runPc = "loop"
           /\ ~ctxDone
           /\ Cardinality(Started) = n
           /\ \/ Cardinality(InFlight) < jobs
              \/ \E i \in 1..MaxUnits : units[i].st = "returned")
            ~> \/ ctxDone
               \/ /\ Cardinality(Started) > n
                  /\ units[n + 1].st # "none"

\* A unit has been admitted, with the context not cancelled, after as many
\* units as Jobs allows were in flight and one of them ended
C39_Witness ==
    /\ driver = "deadlocks"
    /\ runPc = "loop"
    /\ ~ctxDone
    /\ Cardinality(Started) > jobs
    /\ units[Cardinality(Started)].st = "running"
    /\ \E i \in 1..MaxUnits : units[i].st = "finished"

====
